---- MODULE Spec2Model ----
(***************************************************************************)
(* Ledger engine of the Tiles & Granite inventory app (src/app.py) on top  *)
(* of the Supabase row store (src/supabase_db.py).                         *)
(*                                                                         *)
(* Conventions of the model                                                *)
(*   - a Python value that may be None is a sequence: <<>> is None and     *)
(*     <<v>> is the value v;                                               *)
(*   - a datetime is a number of ticks, TicksPerSec ticks to the second;   *)
(*     the text written by isoformat(timespec="seconds") is the number of  *)
(*     whole seconds, so that writing and reading back a timestamp drops   *)
(*     the sub-second part, as the code does;                              *)
(*   - the floats are fixed-point numbers: a quantity is counted in tenths *)
(*     of the unit, a price in hundredths of the currency unit, and an     *)
(*     amount or a balance in thousandths, so that 2.5 units at 10.25 are  *)
(*     25 x 1025 = 25625 thousandths and round(x, 2) is a real rounding;   *)
(*     binary floating-point error is not modelled;                        *)
(*   - a table is the sequence of its rows in insertion order, a row is a  *)
(*     function from the column names of TABLE_COLUMNS to values.          *)
(***************************************************************************)
EXTENDS Integers, Sequences, FiniteSets, TLC

VARIABLES store, cache, last

vars == <<store, cache, last>>

(* ------------------------------ bounds -------------------------------- *)

\* rows the engine may append to products and stock_moves in one run
MaxRows == 2

\* resolution of the clock: ticks per second
TicksPerSec == 4

(* ----------------------------- constants ------------------------------ *)

\* add_move / add_payment: dedupe_window_seconds default
DefaultWindow == 120

None == <<>>

Some(v) == <<v>>

IsNone(o) == Len(o) = 0

\* Python truthiness of an optional number: None and 0 are falsy
Truthy(o) == Len(o) = 1 /\ o[1] # 0

\* `x or d` for an optional number
OrElse(o, d) == IF Truthy(o) THEN o[1] ELSE d

(* ------------------------ supabase_db.py: store ----------------------- *)

TABLE_COLUMNS ==
    [ users       |-> <<"id", "username", "password_hash", "salt">>,
      products    |-> <<"id", "name", "material", "size", "unit", "opening_stock">>,
      customers   |-> <<"id", "name", "phone", "address">>,
      suppliers   |-> <<"id", "name", "phone", "address">>,
      payments    |-> <<"id", "ts", "customer_id", "kind", "amount", "notes">>,
      stock_moves |-> <<"id", "ts", "kind", "product_id", "qty", "price_per_unit",
                        "customer_id", "supplier_id", "notes">> ]

Tables == DOMAIN TABLE_COLUMNS

Range(s) == { s[i] : i \in 1..Len(s) }

Columns(t) == Range(TABLE_COLUMNS[t])

\* the columns whose cell is an optional text (kind, username, password_hash
\* and salt are never written empty and are kept as plain texts)
TextColumns == {"name", "material", "size", "unit", "phone", "address", "notes"}

\* _noneify(v): "" becomes None
_noneify(c, v) == IF c \in TextColumns /\ v = Some("") THEN None ELSE v

RECURSIVE MaxId(_)
MaxId(rows) ==
    IF rows = <<>> THEN 0
    ELSE LET m == MaxId(Tail(rows))
         IN  IF Head(rows)["id"] > m THEN Head(rows)["id"] ELSE m

\* the id the store gives a row inserted without one: identity column, or
\* _next_id = max(existing id) + 1, and 1 for an empty table
_next_id(rows) == MaxId(rows) + 1

ColumnIndex(t, c) == CHOOSE i \in 1..Len(TABLE_COLUMNS[t]) : TABLE_COLUMNS[t][i] = c

\* an append_row that writes the row over the table instead of adding to it
append_row_replacing(st, t, row_values) ==
    IF Len(row_values) # Len(TABLE_COLUMNS[t])
    THEN [raised |-> "ValueError", store |-> st]
    ELSE LET rec == [c \in Columns(t) |->
                        IF c = "id" THEN _next_id(st[t])
                        ELSE _noneify(c, row_values[ColumnIndex(t, c)])]
         IN  [raised |-> "", store |-> [st EXCEPT ![t] = <<rec>>]]

\* append_row(table_name, row_values): the outcome on the store st.
\* raised is "" when the row was inserted, else the exception's type.
append_row(st, t, row_values) ==
    IF Len(row_values) # Len(TABLE_COLUMNS[t])
    THEN [raised |-> "ValueError", store |-> st]
    ELSE LET rec == [c \in Columns(t) |->
                        IF c = "id" THEN _next_id(st[t])
                        ELSE _noneify(c, row_values[ColumnIndex(t, c)])]
         IN  [raised |-> "", store |-> [st EXCEPT ![t] = Append(@, rec)]]

\* fetch_df(table_name): the rows of the table, restricted to TABLE_COLUMNS
fetch_df(t) == store[t]

(* ---------------------- app.py: cached table reads -------------------- *)

\* st.cache_data(ttl=12): the cached frame of table t, read through on a miss
CachedDf(t) == IF IsNone(cache[t]) THEN fetch_df(t) ELSE cache[t][1]

\* the cache after the tables of T were read
CacheAfterRead(T) ==
    [t \in Tables |-> IF t \in T /\ IsNone(cache[t]) THEN Some(fetch_df(t)) ELSE cache[t]]

\* _clear_caches(): st.cache_data.clear()
_clear_caches == [t \in Tables |-> None]

\* stock_moves_df(): price_per_unit is coerced with fillna(0.0)
stock_moves_df ==
    LET df == CachedDf("stock_moves")
    IN  [i \in 1..Len(df) |->
            [df[i] EXCEPT !["price_per_unit"] = Some(OrElse(@, 0))]]

products_df == CachedDf("products")

payments_df == CachedDf("payments")

(* --------------------------- timestamps ------------------------------- *)

\* ts_dt.isoformat(timespec="seconds"): the text names whole seconds
IsoFormat(t) == t \div TicksPerSec

\* pd.to_datetime(df["ts"]): the datetime a stored text names
ToDatetime(s) == s * TicksPerSec

(* ----------------------------- inputs --------------------------------- *)

Kinds == {"purchase", "sale"}

ProductIds == {1, 2}

Qtys == {20, 25, -10}

Prices == {None, Some(0), Some(1025)}

CustomerIds == {None, Some(1), Some(2)}

SupplierIds == {None, Some(1)}

Notes == {None, Some(""), Some("Bill 7")}

\* the instants of the calls: just under one second, the default window
\* later to the second, and half a second after that
Times == { TicksPerSec - 1,
           DefaultWindow * TicksPerSec,
           DefaultWindow * TicksPerSec + 2 }

Windows == {0, DefaultWindow}

AllMoveArgs ==
    [ kind : Kinds, product_id : ProductIds, qty : Qtys, price_per_unit : Prices,
      customer_id : CustomerIds, supplier_id : SupplierIds, notes : Notes ]

BaseSale ==
    [ kind |-> "sale", product_id |-> 1, qty |-> 20, price_per_unit |-> Some(1025),
      customer_id |-> Some(1), supplier_id |-> None, notes |-> Some("Bill 7") ]

BasePurchase ==
    [ kind |-> "purchase", product_id |-> 1, qty |-> 20, price_per_unit |-> Some(1025),
      customer_id |-> None, supplier_id |-> Some(1), notes |-> Some("Bill 7") ]

\* the number of arguments in which two calls differ
Distance(a, b) == Cardinality({ f \in DOMAIN a : a[f] # b[f] })

\* the calls of add_move the model makes: a purchase, a sale, and every call
\* that differs from the sale in one argument
MoveArgs ==
    { a \in AllMoveArgs : Distance(a, BaseSale) <= 1 \/ a = BasePurchase }

\* every call is made at the first instant with the default window; the sale
\* is also made at the other instants and with window 0
MoveCalls ==
    { c \in [args : MoveArgs, when : Times, window : Windows] :
        \/ c.args = BaseSale
        \/ c.when = TicksPerSec - 1 /\ c.window = DefaultWindow }

(* ------------------------- app.py: add_move --------------------------- *)

\* the sign flip left out
ins_qty_unsigned(kind, qty) == qty

\* ins_qty = -qty if (kind == "sale" and qty > 0) else qty
ins_qty(kind, qty) == IF kind = "sale" /\ qty > 0 THEN -qty ELSE qty

\* fillna(d) of an optional cell
FillNa(o, d) == IF IsNone(o) THEN d ELSE o[1]

\* `notes or ""`: None and "" are falsy
OrEmpty(o) == IF IsNone(o) THEN "" ELSE o[1]

\* the duplicate-submission guard of add_move: the mask over stock_moves_df
IsDuplicate(a, ts_dt, window) ==
    LET since == ts_dt - window * TicksPerSec
        df    == stock_moves_df
    IN  \E i \in 1..Len(df) :
            /\ ToDatetime(df[i]["ts"]) >= since
            /\ df[i]["kind"] = a.kind
            /\ df[i]["product_id"] = a.product_id
            /\ df[i]["qty"] = ins_qty(a.kind, a.qty)
            /\ FillNa(df[i]["price_per_unit"], 0) = OrElse(a.price_per_unit, 0)
            /\ FillNa(df[i]["customer_id"], -1) = FillNa(a.customer_id, -1)
            /\ FillNa(df[i]["supplier_id"], -1) = FillNa(a.supplier_id, -1)
            /\ OrEmpty(df[i]["notes"]) = OrEmpty(a.notes)

\* the values add_move hands to append_row
MoveRow(a, ts_dt) ==
    << None, IsoFormat(ts_dt), a.kind, a.product_id, ins_qty(a.kind, a.qty),
       a.price_per_unit, a.customer_id, a.supplier_id,
       IF OrEmpty(a.notes) = "" THEN None ELSE a.notes >>

\* the product the store holds when the app starts on a used store
SeedProduct ==
    [ id |-> 1, name |-> Some("Granite"), material |-> Some("Granite"), size |-> None,
      unit |-> Some("sq_ft"), opening_stock |-> 10 ]

\* rows appended by the engine so far
RowCount ==
    Len(SelectSeq(store["products"], LAMBDA r : r # SeedProduct)) + Len(store["stock_moves"])

Call(op, args, when, window, ret, exc, appends, msg) ==
    [ op |-> op, args |-> args, when |-> when, window |-> window, ret |-> ret,
      exc |-> exc, appends |-> appends, msg |-> msg ]

add_move(a, ts_dt, window) ==
    LET guarded == window > 0
        dup     == guarded /\ IsDuplicate(a, ts_dt, window)
        r       == append_row(store, "stock_moves", MoveRow(a, ts_dt))
        read    == IF guarded THEN CacheAfterRead({"stock_moves"}) ELSE cache
    IN  /\ ~dup => RowCount < MaxRows
        /\ IF dup
           THEN /\ store' = store
                /\ cache' = read
                /\ last' = Call("add_move", a, ts_dt, window, FALSE, "", 0, "")
           ELSE IF r.raised # ""
           THEN /\ store' = store
                /\ cache' = read
                /\ last' = Call("add_move", a, ts_dt, window, FALSE, "RuntimeError", 1, "")
           ELSE /\ store' = r.store
                /\ cache' = _clear_caches
                /\ last' = Call("add_move", a, ts_dt, window, TRUE, "", 1, "")

AddMove == \E c \in MoveCalls : add_move(c.args, c.when, c.window)

(* ------------------------- app.py: product_stock ---------------------- *)

RECURSIVE SumQty(_, _)
\* moves[moves["product_id"] == product_id]["qty"].sum()
SumQty(df, product_id) ==
    IF df = <<>> THEN 0
    ELSE (IF Head(df)["product_id"] = product_id THEN Head(df)["qty"] ELSE 0)
         + SumQty(Tail(df), product_id)

\* the rows of df whose column c holds v, in order
RowsWhere(df, c, v) == SelectSeq(df, LAMBDA r : r[c] = v)

_get_opening_stock(product_id) ==
    LET row == RowsWhere(products_df, "id", product_id)
    IN  IF row = <<>> THEN 0 ELSE row[1]["opening_stock"]

\* the stock clamped at zero
product_stock_clamped(product_id) ==
    LET v == _get_opening_stock(product_id) + SumQty(stock_moves_df, product_id)
    IN  IF v < 0 THEN 0 ELSE v

product_stock(product_id) ==
    LET opening == _get_opening_stock(product_id)
        moves   == stock_moves_df
    IN  IF moves = <<>> THEN opening ELSE opening + SumQty(moves, product_id)

ProductStock ==
    \E p \in ProductIds :
        /\ store' = store
        /\ cache' = CacheAfterRead({"products", "stock_moves"})
        /\ last' = Call("product_stock", [product_id |-> p], 0, 0, product_stock(p), "", 0, "")

(* ---------------- app.py: add_product / ensure_product ---------------- *)

\* str.lower() on the texts of the model
Lower(s) ==
    CASE s = "Renite"  -> "renite"
      [] s = " Renite" -> " renite"
      [] s = "Box"     -> "box"
      [] s = "Suresh"  -> "suresh"
      [] s = "ABC"     -> "abc"
      [] s = "None"    -> "none"
      [] s = "Venkat Reddy"  -> "venkat reddy"
      [] s = " Venkat Reddy" -> " venkat reddy"
      [] OTHER         -> s

\* str.strip() on the texts of the model
Strip(s) ==
    CASE s = " Renite" -> "Renite"
      [] s = " renite" -> "renite"
      [] s = " suresh" -> "suresh"
      [] s = " Venkat Reddy" -> "Venkat Reddy"
      [] s = " venkat reddy" -> "venkat reddy"
      [] OTHER         -> s

Names == {"Renite", "renite", " Renite"}

Sizes == {"600x600", ""}

Units == {"box", "Box"}

Materials == {"Tiles"}

OpeningStocks == {0, 50}

AllProductArgs ==
    [ name : Names, size : Sizes, unit : Units, material : Materials,
      opening_stock : OpeningStocks ]

BaseProduct ==
    [ name |-> "Renite", size |-> "600x600", unit |-> "box", material |-> "Tiles",
      opening_stock |-> 50 ]

\* the calls of ensure_product the model makes: one product, and every call
\* that differs from it in one argument
ProductArgs == { a \in AllProductArgs : Distance(a, BaseProduct) <= 1 }

\* `x.strip() or None`
StripOrNone(s) == IF Strip(s) = "" THEN None ELSE Some(Strip(s))

\* add_product(...): the values handed to append_row
ProductRow(a) ==
    << None, Some(Strip(a.name)), StripOrNone(a.material), StripOrNone(a.size),
       Some(Strip(a.unit)), a.opening_stock >>

\* products_lookup_key(name, size, unit): the unit keeps its case
products_lookup_key(name, size, unit) ==
    << Lower(Strip(name)), Lower(Strip(size)), Strip(unit) >>

\* get_product_by_name_size_unit: the mask fills missing cells with ""
get_product_by_name_size_unit(df, name, size, unit) ==
    LET k   == products_lookup_key(name, size, unit)
        row == SelectSeq(df, LAMBDA r :
                   /\ Lower(OrEmpty(r["name"])) = k[1]
                   /\ OrEmpty(r["unit"]) = k[3]
                   /\ Lower(OrEmpty(r["size"])) = k[2])
    IN  IF row = <<>> THEN None ELSE Some(row[1])

\* ensure_product, after add_product: this mask does not fill missing cells,
\* and a missing cell matches nothing
LookupAfterAdd(df, name, size, unit) ==
    LET k   == products_lookup_key(name, size, unit)
        row == SelectSeq(df, LAMBDA r :
                   /\ ~IsNone(r["name"]) /\ Lower(r["name"][1]) = k[1]
                   /\ ~IsNone(r["unit"]) /\ r["unit"][1] = k[3]
                   /\ ~IsNone(r["size"]) /\ Lower(r["size"][1]) = k[2])
    IN  IF row = <<>> THEN None ELSE Some(row[1]["id"])

\* ensure_product(name, size, unit, material, opening_stock): ret is the id
\* returned, None for Python's None
ensure_product(a) ==
    LET p == get_product_by_name_size_unit(products_df, a.name, a.size, a.unit)
        r == append_row(store, "products", ProductRow(a))
    IN  IF ~IsNone(p)
        THEN /\ store' = store
             /\ cache' = CacheAfterRead({"products"})
             /\ last' = Call("ensure_product", a, 0, 0, Some(p[1]["id"]), "", 0, "")
        ELSE /\ RowCount < MaxRows
             /\ IF r.raised # ""
                THEN /\ store' = store
                     /\ cache' = CacheAfterRead({"products"})
                     /\ last' = Call("ensure_product", a, 0, 0, None, "RuntimeError", 1, "")
                ELSE /\ store' = r.store
                     /\ cache' = [_clear_caches EXCEPT !["products"] = Some(r.store["products"])]
                     /\ last' = Call("ensure_product", a, 0, 0,
                                     LookupAfterAdd(r.store["products"], a.name, a.size, a.unit),
                                     "", 1, "")

EnsureProduct == \E a \in ProductArgs : ensure_product(a)

(* -------------------------- app.py: add_payment ----------------------- *)

PaymentKinds == {"payment", "opening_due", "advance"}

Amounts == {100000, 0, -5000}

AllPaymentArgs ==
    [ customer_id : CustomerIds, kind : PaymentKinds, amount : Amounts,
      supplier_id : SupplierIds, notes : {None, Some("adv")} ]

BasePayment ==
    [ customer_id |-> Some(1), kind |-> "payment", amount |-> 100000,
      supplier_id |-> None, notes |-> Some("adv") ]

SupplierPayment ==
    [ customer_id |-> None, kind |-> "payment", amount |-> 100000,
      supplier_id |-> Some(1), notes |-> Some("adv") ]

\* the calls of add_payment the model makes
PaymentArgs ==
    { a \in AllPaymentArgs : Distance(a, BasePayment) <= 1 \/ a = SupplierPayment }

\* the values add_payment hands to append_row: seven of them
PaymentRow(a, ts_dt) ==
    << None, IsoFormat(ts_dt),
       IF Truthy(a.customer_id) THEN a.customer_id ELSE None,
       IF Truthy(a.supplier_id) THEN a.supplier_id ELSE None,
       a.kind, a.amount,
       IF OrEmpty(a.notes) = "" THEN None ELSE a.notes >>

\* the check with amount < 0 for amount <= 0
PaymentRejected_strict(a) ==
    (~Truthy(a.customer_id) /\ ~Truthy(a.supplier_id)) \/ a.amount < 0

\* the check that opens add_payment
PaymentRejected(a) ==
    (~Truthy(a.customer_id) /\ ~Truthy(a.supplier_id)) \/ a.amount <= 0

add_payment(a, ts_dt, window) ==
    LET r == append_row(store, "payments", PaymentRow(a, ts_dt))
    IN  IF PaymentRejected(a)
        THEN /\ UNCHANGED <<store, cache>>
             /\ last' = Call("add_payment", a, ts_dt, window, FALSE, "", 0, "")
        ELSE IF r.raised # ""
        THEN /\ UNCHANGED <<store, cache>>
             /\ last' = Call("add_payment", a, ts_dt, window, FALSE, "", 1,
                             "Supabase insert failed")
        ELSE /\ store' = r.store
             /\ cache' = _clear_caches
             /\ last' = Call("add_payment", a, ts_dt, window, TRUE, "", 1, "")

AddPayment == \E a \in PaymentArgs : add_payment(a, TicksPerSec - 1, DefaultWindow)

(* ------------------ app.py: customer / supplier balance --------------- *)

Abs(x) == IF x < 0 THEN -x ELSE x

\* round(x, 2) of an amount in thousandths: to the nearest hundredth, a tie
\* to the even one
Round2(x) ==
    LET q == x \div 10
        r == x % 10
    IN  IF r < 5 THEN q * 10
        ELSE IF r > 5 THEN (q + 1) * 10
        ELSE IF q % 2 = 0 THEN q * 10 ELSE (q + 1) * 10

RECURSIVE SumAmount(_)
\* (s["qty"].abs() * s["price_per_unit"].fillna(0.0)).sum()
SumAmount(s) ==
    IF s = <<>> THEN 0
    ELSE Abs(Head(s)["qty"]) * FillNa(Head(s)["price_per_unit"], 0) + SumAmount(Tail(s))

RECURSIVE SumColumn(_, _)
\* df[c].sum()
SumColumn(df, c) == IF df = <<>> THEN 0 ELSE Head(df)[c] + SumColumn(Tail(df), c)

\* p[p["kind"] == kind]["amount"].sum()
KindTotal(p, kind) == SumColumn(RowsWhere(p, "kind", kind), "amount")

\* the outcome of a balance: raised is "" and val the value, or the exception
Returned(v) == [raised |-> "", val |-> v]

Raised(e) == [raised |-> e, val |-> 0]

\* the payment rows summed without the filter on kind
customer_balance_mixed(customer_id) ==
    IF customer_id = 0 THEN Returned(0)
    ELSE
    LET s == SelectSeq(stock_moves_df, LAMBDA r :
                 r["kind"] = "sale" /\ r["customer_id"] = Some(customer_id))
        p == RowsWhere(payments_df, "customer_id", Some(customer_id))
    IN  Returned(Round2(SumAmount(s) - SumColumn(p, "amount")))

customer_balance(customer_id) ==
    IF customer_id = 0 THEN Returned(0)
    ELSE
    LET mv == stock_moves_df
        s  == SelectSeq(mv, LAMBDA r :
                  r["kind"] = "sale" /\ r["customer_id"] = Some(customer_id))
        sales_total == SumAmount(s)
        pay == payments_df
        p   == RowsWhere(pay, "customer_id", Some(customer_id))
        opening_due == KindTotal(p, "opening_due")
        payments    == KindTotal(p, "payment")
        advances    == KindTotal(p, "advance")
    IN  Returned(Round2(sales_total + opening_due - payments - advances))

supplier_balance(supplier_id) ==
    IF supplier_id = 0 THEN Returned(0)
    ELSE
    LET mv == stock_moves_df
        s  == SelectSeq(mv, LAMBDA r :
                  r["kind"] = "purchase" /\ r["supplier_id"] = Some(supplier_id))
        purchases_total == SumAmount(s)
        pay == payments_df
    IN  IF pay = <<>> THEN Returned(Round2(purchases_total))
        ELSE IF "supplier_id" \notin DOMAIN pay[1] THEN Raised("KeyError")
        ELSE Returned(Round2(purchases_total
                 - KindTotal(RowsWhere(pay, "supplier_id", Some(supplier_id)), "payment")))

PartyIds == {1, 2}

CustomerBalance ==
    \E c \in PartyIds :
        LET b == customer_balance(c)
        IN  /\ store' = store
            /\ cache' = CacheAfterRead({"stock_moves", "payments"})
            /\ last' = Call("customer_balance", [customer_id |-> c], 0, 0,
                            b.val, b.raised, 0, "")

SupplierBalance ==
    \E s \in PartyIds :
        LET b == supplier_balance(s)
        IN  /\ store' = store
            /\ cache' = CacheAfterRead({"stock_moves", "payments"})
            /\ last' = Call("supplier_balance", [supplier_id |-> s], 0, 0,
                            b.val, b.raised, 0, "")

(* ---------------------------- the machine ----------------------------- *)

\* rows of the payments table that the store holds when the app starts
SeedPayments ==
    << [id |-> 1, ts |-> 0, customer_id |-> Some(1), kind |-> "opening_due",
        amount |-> 50000, notes |-> None],
       [id |-> 2, ts |-> 0, customer_id |-> Some(1), kind |-> "payment",
        amount |-> 100000, notes |-> Some("adv")],
       [id |-> 3, ts |-> 0, customer_id |-> Some(1), kind |-> "advance",
        amount |-> 30000, notes |-> None],
       [id |-> 4, ts |-> 0, customer_id |-> Some(2), kind |-> "payment",
        amount |-> 7000, notes |-> None] >>

\* st.cache_data(ttl=12): the cached frames expire
CacheExpire ==
    /\ cache # _clear_caches
    /\ cache' = _clear_caches
    /\ UNCHANGED <<store, last>>

\* a new store, and a store in use
EmptyStore == [t \in Tables |-> <<>>]

SeededStore ==
    [EmptyStore EXCEPT !["products"] = <<SeedProduct>>, !["payments"] = SeedPayments]

Init ==
    /\ store \in {EmptyStore, SeededStore}
    /\ cache = [t \in Tables |-> None]
    /\ last = Call("init", <<>>, 0, 0, FALSE, "", 0, "")

Next ==
    \/ AddMove
    \/ AddPayment
    \/ EnsureProduct
    \/ ProductStock
    \/ CustomerBalance
    \/ SupplierBalance
    \/ CacheExpire

Spec == Init /\ [][Next]_vars

(* --------------- the helpers in the course of a handler --------------- *)
(* A UI handler calls several helpers one after the other. The helpers    *)
(* are written once more below as functions of the session: the store and *)
(* the cache as the handler sees them, with the count of rows inserted    *)
(* (appends) out of the calls of append_row (calls), the tables whose     *)
(* fetch failed (failed; hidden, those of them that hold rows), and the   *)
(* messages shown. env says how the store answers                         *)
(* during the handler: env.read, whether a select succeeds, and           *)
(* env.write, whether an insert succeeds; when it does not, the first      *)
(* env.ok calls of append_row in the handler still succeed.               *)

Session(st, ca) ==
    [ store |-> st, cache |-> ca, calls |-> 0, appends |-> 0, failed |-> {},
      hidden |-> {}, msgs |-> {} ]

Envs == [ read : BOOLEAN, write : BOOLEAN, ok : {0} ]

Reliable == [ read |-> TRUE, write |-> TRUE, ok |-> 0 ]

\* fetch_df(table_name): an exception of the select is caught and an empty
\* frame with the table's columns is returned
fetch_df_in(s, env, t) == IF env.read THEN s.store[t] ELSE <<>>

\* a read through st.cache_data: the frame, and the session after it (the
\* frame returned by fetch_df is cached, the empty frame of a failed fetch
\* included)
Read(s, env, t) ==
    IF ~IsNone(s.cache[t])
    THEN [ df |-> s.cache[t][1], s |-> s ]
    ELSE [ df |-> fetch_df_in(s, env, t),
           s  |-> [ s EXCEPT !.cache[t] = Some(fetch_df_in(s, env, t)),
                             !.failed = IF env.read THEN @ ELSE @ \cup {t},
                             !.hidden = IF env.read \/ s.store[t] = <<>>
                                        THEN @ ELSE @ \cup {t} ] ]

\* an insert that stores the row two times
Insert_twice(s, env, t, row_values) ==
    LET r == append_row(s.store, t, row_values)
        c == [ s EXCEPT !.calls = @ + 1 ]
    IN  IF r.raised # "" THEN [ raised |-> r.raised, s |-> c ]
        ELSE IF ~env.write /\ c.calls > env.ok
        THEN [ raised |-> "RuntimeError", s |-> c ]
        ELSE [ raised |-> "",
               s |-> [ c EXCEPT !.store = append_row(r.store, t, row_values).store,
                                !.appends = @ + 1 ] ]

\* append_row(table_name, row_values) on the session: the length check, then
\* the insert, which raises RuntimeError when the store refuses it
Insert(s, env, t, row_values) ==
    LET r == append_row(s.store, t, row_values)
        c == [ s EXCEPT !.calls = @ + 1 ]
    IN  IF r.raised # "" THEN [ raised |-> r.raised, s |-> c ]
        ELSE IF ~env.write /\ c.calls > env.ok
        THEN [ raised |-> "RuntimeError", s |-> c ]
        ELSE [ raised |-> "",
               s |-> [ c EXCEPT !.store = r.store, !.appends = @ + 1 ] ]

\* the cache left as it is
Cleared_kept(s) == s

\* _clear_caches() on the session
Cleared(s) == [ s EXCEPT !.cache = _clear_caches ]

\* st.error / st.warning / st.success / st.info(text)
Say(s, text) == [ s EXCEPT !.msgs = @ \cup {text} ]

\* the outcome of a helper: the value returned, or the exception raised
Done(s, v) == [ s |-> s, ret |-> v, exc |-> "" ]

Throw(s, e) == [ s |-> s, ret |-> None, exc |-> e ]

\* stock_moves_df() on a fetched frame: price_per_unit coerced with fillna(0.0)
CoerceMoves(df) ==
    [ i \in 1..Len(df) |-> [ df[i] EXCEPT !["price_per_unit"] = Some(OrElse(@, 0)) ] ]

\* the mask of add_move's duplicate guard over the frame df
IsDuplicateIn(df, a, ts_dt, window) ==
    LET since == ts_dt - window * TicksPerSec
    IN  \E i \in 1..Len(df) :
            /\ ToDatetime(df[i]["ts"]) >= since
            /\ df[i]["kind"] = a.kind
            /\ df[i]["product_id"] = a.product_id
            /\ df[i]["qty"] = ins_qty(a.kind, a.qty)
            /\ FillNa(df[i]["price_per_unit"], 0) = OrElse(a.price_per_unit, 0)
            /\ FillNa(df[i]["customer_id"], -1) = FillNa(a.customer_id, -1)
            /\ FillNa(df[i]["supplier_id"], -1) = FillNa(a.supplier_id, -1)
            /\ OrEmpty(df[i]["notes"]) = OrEmpty(a.notes)

\* add_move(...) on the session
add_move_in(s, env, a, ts_dt, window) ==
    LET Appending(ins) ==
            IF ins.raised # "" THEN Throw(ins.s, ins.raised)
            ELSE Done(Cleared(ins.s), TRUE)
        Guarding(rd) ==
            IF window > 0 /\ IsDuplicateIn(CoerceMoves(rd.df), a, ts_dt, window)
            THEN Done(rd.s, FALSE)
            ELSE Appending(Insert(rd.s, env, "stock_moves", MoveRow(a, ts_dt)))
    IN  Guarding(IF window > 0 THEN Read(s, env, "stock_moves")
                 ELSE [ df |-> <<>>, s |-> s ])

\* add_payment(...) on the session: an exception of append_row is caught,
\* shown with st.error, and False is returned
add_payment_in(s, env, a, ts_dt) ==
    LET Appending(ins) ==
            IF ins.raised # ""
            THEN Done(Say(ins.s, "Supabase insert failed"), FALSE)
            ELSE Done(Cleared(ins.s), TRUE)
    IN  IF PaymentRejected(a) THEN Done(s, FALSE)
        ELSE Appending(Insert(s, env, "payments", PaymentRow(a, ts_dt)))

\* the values add_customer / add_supplier hand to append_row
PartyRow(name, phone, address) ==
    << None, Some(Strip(name)), StripOrNone(phone), StripOrNone(address) >>

\* add_customer(name, phone, address) and add_supplier(name, phone, address)
\* on the session, t the table
add_party_in(s, env, t, name, phone, address) ==
    LET Appending(ins) ==
            IF ins.raised # "" THEN Throw(ins.s, ins.raised)
            ELSE Done(Cleared(ins.s), TRUE)
    IN  Appending(Insert(s, env, t, PartyRow(name, phone, address)))

\* the rows whose name is nm letter for letter
PartyRowsNamed_exact(df, nm) ==
    SelectSeq(df, LAMBDA r :
        (IF IsNone(r["name"]) THEN "None" ELSE r["name"][1]) = nm)

\* df[df["name"].astype(str).str.lower() == nm.lower()]: astype(str) turns
\* a missing name into the text "None"
PartyRowsNamed(df, nm) ==
    SelectSeq(df, LAMBDA r :
        Lower(IF IsNone(r["name"]) THEN "None" ELSE r["name"][1]) = Lower(nm))

\* the id of the first row of a frame, None for an empty frame
FirstId(rows) == IF rows = <<>> THEN None ELSE Some(rows[1]["id"])

\* ensure_customer_by_name(name) and ensure_supplier_by_name(name) on the
\* session, t the table: ret is the id, None for Python's None
ensure_party_in(s, env, t, name) ==
    LET LookingAgain(rd) == Done(rd.s, FirstId(PartyRowsNamed(rd.df, Strip(name))))
        Adding(add) ==
            IF add.exc # "" THEN add ELSE LookingAgain(Read(add.s, env, t))
        Looking(rd, found) ==
            IF found # <<>> THEN Done(rd.s, FirstId(found))
            ELSE Adding(add_party_in(rd.s, env, t, Strip(name), "", ""))
        Reading(rd) == Looking(rd, PartyRowsNamed(rd.df, Strip(name)))
    IN  IF Strip(name) = "" THEN Done(s, None)
        ELSE Reading(Read(s, env, t))

\* add_product(...) on the session
add_product_in(s, env, a) ==
    LET Appending(ins) ==
            IF ins.raised # "" THEN Throw(ins.s, ins.raised)
            ELSE Done(Cleared(ins.s), TRUE)
    IN  Appending(Insert(s, env, "products", ProductRow(a)))

\* ensure_product(name, size, unit, material, opening_stock) on the session
ensure_product_in(s, env, a) ==
    LET LookingAgain(rd) ==
            Done(rd.s, LookupAfterAdd(rd.df, a.name, a.size, a.unit))
        Adding(add) ==
            IF add.exc # "" THEN add ELSE LookingAgain(Read(add.s, env, "products"))
        Looking(rd, p) ==
            IF ~IsNone(p) THEN Done(rd.s, Some(p[1]["id"]))
            ELSE Adding(add_product_in(rd.s, env, a))
        Reading(rd) ==
            Looking(rd, get_product_by_name_size_unit(rd.df, a.name, a.size, a.unit))
    IN  Reading(Read(s, env, "products"))

\* product_stock(product_id) on the session
product_stock_in(s, env, product_id) ==
    LET Summing(opening, rm, moves) ==
            Done(rm.s, IF moves = <<>> THEN opening
                       ELSE opening + SumQty(moves, product_id))
        Moves_(opening, rm) == Summing(opening, rm, CoerceMoves(rm.df))
        Opening(rp, row) ==
            Moves_(IF row = <<>> THEN 0 ELSE row[1]["opening_stock"],
                   Read(rp.s, env, "stock_moves"))
        Reading(rp) == Opening(rp, RowsWhere(rp.df, "id", product_id))
    IN  Reading(Read(s, env, "products"))

\* customer_balance(customer_id) on the session
customer_balance_in(s, env, customer_id) ==
    LET Total(sales_total, rp, p) ==
            Done(rp.s, Round2(sales_total + KindTotal(p, "opening_due")
                              - KindTotal(p, "payment") - KindTotal(p, "advance")))
        Paid(sales_total, rp) ==
            Total(sales_total, rp, RowsWhere(rp.df, "customer_id", Some(customer_id)))
        Sales(rm) ==
            Paid(SumAmount(SelectSeq(CoerceMoves(rm.df), LAMBDA r :
                     r["kind"] = "sale" /\ r["customer_id"] = Some(customer_id))),
                 Read(rm.s, env, "payments"))
    IN  IF customer_id = 0 THEN Done(s, 0)
        ELSE Sales(Read(s, env, "stock_moves"))

(* ------------- the helpers on a store that may fail ------------------- *)

\* the record of the last call: what was called and what came of it
Outcome(op, args, when, r) ==
    [ op |-> op, args |-> args, when |-> when,
      ret |-> r.ret, exc |-> r.exc, calls |-> r.s.calls, appends |-> r.s.appends,
      failed |-> r.s.failed, hidden |-> r.s.hidden,
      msgs |-> r.s.msgs ]

\* the customer the store holds when the app starts on a used store
SeedCustomer ==
    [ id |-> 1, name |-> Some("Suresh"), phone |-> None, address |-> None ]

\* rows the handlers of the application may append in one run
MaxAppRows == 3

\* rows of the tables of st that count against the bounds
Appended(st) ==
    Len(SelectSeq(st["products"], LAMBDA r : r # SeedProduct))
    + Len(st["stock_moves"]) + Len(st["customers"]) + Len(st["suppliers"])

\* the instant of the calls made by the helpers' callers: datetime.now()
Now == TicksPerSec - 1

FaultyMoveArgs == {BaseSale, BasePurchase}

FAddMove ==
    \E a \in FaultyMoveArgs, env \in Envs :
        LET r == add_move_in(Session(store, cache), env, a, Now, DefaultWindow)
        IN  /\ Appended(r.s.store) <= MaxRows
            /\ store' = r.s.store
            /\ cache' = r.s.cache
            /\ last' = Outcome("add_move", a, Now, r)

FaultyPaymentArgs == {BasePayment, [BasePayment EXCEPT !.amount = 0]}

FAddPayment ==
    \E a \in FaultyPaymentArgs, env \in Envs :
        LET r == add_payment_in(Session(store, cache), env, a, Now)
        IN  /\ store' = r.s.store
            /\ cache' = r.s.cache
            /\ last' = Outcome("add_payment", a, Now, r)

\* the calls of ensure_customer_by_name and ensure_supplier_by_name
FaultyPartyCalls ==
    { [table |-> "customers", name |-> "Suresh"],
      [table |-> "customers", name |-> "suresh"],
      [table |-> "suppliers", name |-> "ABC"] }

FEnsureParty ==
    \E c \in FaultyPartyCalls, env \in Envs :
        LET r == ensure_party_in(Session(store, cache), env, c.table, c.name)
        IN  /\ Appended(r.s.store) <= MaxRows
            /\ store' = r.s.store
            /\ cache' = r.s.cache
            /\ last' = Outcome("ensure_party", c, 0, r)

FaultyProductArgs == {BaseProduct, [BaseProduct EXCEPT !.name = "renite"]}

FEnsureProduct ==
    \E a \in FaultyProductArgs, env \in Envs :
        LET r == ensure_product_in(Session(store, cache), env, a)
        IN  /\ Appended(r.s.store) <= MaxRows
            /\ store' = r.s.store
            /\ cache' = r.s.cache
            /\ last' = Outcome("ensure_product", a, 0, r)

FProductStock ==
    \E p \in {1}, env \in Envs :
        LET r == product_stock_in(Session(store, cache), env, p)
        IN  /\ store' = r.s.store
            /\ cache' = r.s.cache
            /\ last' = Outcome("product_stock", [product_id |-> p], 0, r)

FCustomerBalance ==
    \E c \in {1}, env \in Envs :
        LET r == customer_balance_in(Session(store, cache), env, c)
        IN  /\ store' = r.s.store
            /\ cache' = r.s.cache
            /\ last' = Outcome("customer_balance", [customer_id |-> c], 0, r)

InitFaulty ==
    /\ store \in {EmptyStore, SeededStore}
    /\ cache = [t \in Tables |-> None]
    /\ last = Outcome("init", <<>>, 0, Done(Session(store, cache), None))

NextFaulty ==
    \/ FAddMove
    \/ FAddPayment
    \/ FEnsureParty
    \/ FEnsureProduct
    \/ FProductStock
    \/ FCustomerBalance
    \/ CacheExpire

SpecFaulty == InitFaulty /\ [][NextFaulty]_vars

(* ---------------------- app.py: texts of the forms -------------------- *)
(* A number typed into a form is a text. float(text) is given by its      *)
(* value on the texts of the model, in hundredths; None stands for the    *)
(* ValueError that float raises on a text that is not a number.           *)

NumberTexts == {"", "0.00", "2", "2.5", "10.25", "100", "1,000", "-5", "abc"}

\* float(text)
Float(text) ==
    CASE text = "0.00"  -> Some(0)
      [] text = "2"     -> Some(200)
      [] text = "2.5"   -> Some(250)
      [] text = "10.25" -> Some(1025)
      [] text = "100"   -> Some(10000)
      [] text = "1000"  -> Some(100000)
      [] text = "-5"    -> Some(-500)
      [] OTHER          -> None

\* float(text or 0): the empty text is falsy and gives 0.0
FloatOrZero(text) == IF text = "" THEN Some(0) ELSE Float(text)

\* text.replace(",", "")
RemoveCommas(text) == IF text = "1,000" THEN "1000" ELSE text

\* parse_amount(txt): 0.0 for a blank text, None for an invalid one
parse_amount(txt) ==
    IF Strip(txt) = "" THEN Some(0) ELSE Float(RemoveCommas(Strip(txt)))

\* _row_amount(qty_txt, rate_txt): 0.0 when either text is not a number; the
\* product of two numbers in hundredths, in thousandths
_row_amount(qty_txt, rate_txt) ==
    IF IsNone(Float(qty_txt)) \/ IsNone(Float(rate_txt)) THEN 0
    ELSE (Float(qty_txt)[1] * Float(rate_txt)[1]) \div 10

\* a quantity in tenths, an amount in thousandths, from a number in hundredths
AsQty(v) == v \div 10

AsAmount(v) == v * 10

\* `x or None` of a number: 0.0 is falsy
NumOrNone(v) == IF v = 0 THEN None ELSE Some(v)

\* `text or None`: the empty text is falsy
TextOrNone(text) == IF text = "" THEN None ELSE Some(text)

\* f"Bill {bill_no}"
BillNote(bill_no) == IF bill_no = "7" THEN "Bill 7" ELSE "Bill 8"

\* a check that lets a quantity of zero pass
NonPositive_negative(qty) == qty < 0

\* `qty <= 0`, the check of the save handlers on the quantity
NonPositive(qty) == qty <= 0
(* ------------------------ app.py: the UI handlers --------------------- *)
(* A handler is the code of one tab from its first read to the end of the *)
(* button's branch, as a function of the session; form is what the user   *)
(* typed and chose, now is datetime.now(). An exception that leaves the   *)
(* handler ends the run of the script.                                    *)

\* Customers tab, "Add Customer"; Suppliers tab, "Add Supplier" (t the table)
add_party_click(s, env, t, form) ==
    LET Adding(add) ==
            IF add.exc # "" THEN add
            ELSE Done(Say(add.s, IF t = "customers" THEN "Customer added."
                                                    ELSE "Supplier added."), None)
    IN  IF Strip(form.name) = ""
        THEN Done(Say(s, IF t = "customers" THEN "Customer Name is required."
                                            ELSE "Supplier Name is required."), None)
        ELSE Adding(add_party_in(s, env, t, form.name, form.phone, form.address))

\* {c["name"]: c for c in rows}[name]["id"]: of the rows with one name the
\* dict keeps the last
IdByName(df, name) ==
    LET named == SelectSeq(df, LAMBDA r : r["name"] = Some(name))
    IN  named[Len(named)]["id"]

\* the names a selectbox over the rows offers
NamesOf(df) == { df[i]["name"][1] : i \in 1..Len(df) }

\* the party chosen in a selectbox over the rows of df
ChosenParty(df, choice) ==
    IF choice = "-- none --" THEN None ELSE Some(IdByName(df, choice))

\* the arguments of the add_move of a single-line save
LineMove(kind, form, customer_id, supplier_id) ==
    [ kind |-> kind, product_id |-> form.product_id,
      qty |-> AsQty(FloatOrZero(form.qty_text)[1]),
      price_per_unit |-> NumOrNone(FloatOrZero(form.price_text)[1]),
      customer_id |-> customer_id, supplier_id |-> supplier_id,
      notes |-> TextOrNone(form.notes) ]

\* Purchase tab, "Save Purchase": the amount shown above the button is
\* computed with float() on every run, before the button is looked at; a
\* branch that does not end in st.rerun() goes on to show the current stock
save_purchase(s, env, form, now) ==
    LET Saving(mv) ==
            IF mv.exc # "" THEN mv
            ELSE IF mv.ret THEN Done(Say(mv.s, "Purchase saved."), None)
            ELSE Done(Say(mv.s, "Skipped duplicate purchase (same line recently saved)."),
                      None)
        Clicked(sups, qty, price) ==
            IF IsNone(qty) \/ IsNone(price) THEN Throw(sups.s, "ValueError")
            ELSE IF NonPositive(qty[1])
            THEN Done(Say(product_stock_in(sups.s, env, form.product_id).s,
                          "Quantity must be > 0."), None)
            ELSE Saving(add_move_in(sups.s, env,
                            LineMove("purchase", form, None,
                                     ChosenParty(sups.df, form.party)),
                            now, DefaultWindow))
        Listing(prods) ==
            Clicked(Read(prods.s, env, "suppliers"),
                    FloatOrZero(form.qty_text), FloatOrZero(form.price_text))
    IN  Listing(Read(s, env, "products"))

\* the arguments of the add_payment of an advance received with a sale
AdvancePayment(customer_id, amount, notes) ==
    [ customer_id |-> customer_id, kind |-> "payment", amount |-> amount,
      supplier_id |-> None, notes |-> Some(notes) ]

\* Sale tab, "Save Sale"
save_sale(s, env, form, now) ==
    LET Saved(pay) == Done(Say(pay.s, "Sale saved."), None)
        Saving(mv, customer_id, adv_now) ==
            IF mv.exc # "" THEN mv
            ELSE IF ~mv.ret
            THEN Done(Say(mv.s, "Skipped duplicate sale (same line recently saved)."),
                      None)
            ELSE IF Truthy(customer_id) /\ adv_now > 0
            THEN Saved(add_payment_in(mv.s, env,
                           AdvancePayment(customer_id, adv_now,
                               IF form.notes = "" THEN "Advance" ELSE "Advance for note"),
                           now))
            ELSE Saved(mv)
        Clicked(s1, customer_id, adv_now, qty, price) ==
            IF IsNone(qty) \/ IsNone(price) THEN Throw(s1, "ValueError")
            ELSE IF NonPositive(qty[1]) THEN Done(Say(s1, "Quantity must be > 0."), None)
            ELSE Saving(add_move_in(s1, env, LineMove("sale", form, customer_id, None),
                                    now, DefaultWindow),
                        customer_id, adv_now)
        Advance(bal, customer_id, adv) ==
            Clicked(IF IsNone(adv)
                    THEN Say(bal.s,
                             "Please enter a valid advance amount (e.g., 1000 or 1000.50)")
                    ELSE bal.s,
                    customer_id, IF IsNone(adv) THEN 0 ELSE AsAmount(adv[1]),
                    FloatOrZero(form.qty_text), FloatOrZero(form.price_text))
        Balance(stock, customer_id) ==
            Advance(IF IsNone(customer_id) THEN stock
                    ELSE customer_balance_in(stock.s, env, customer_id[1]),
                    customer_id,
                    IF IsNone(customer_id) THEN Some(0) ELSE parse_amount(form.adv_text))
        Choosing(custs) ==
            Balance(product_stock_in(custs.s, env, form.product_id),
                    ChosenParty(custs.df, form.party))
        Listing(prods) == Choosing(Read(prods.s, env, "customers"))
    IN  Listing(Read(s, env, "products"))

\* first_non_blank(items, key, fallback)
RECURSIVE first_non_blank(_, _, _)
first_non_blank(items, key, fallback) ==
    IF items = <<>> THEN fallback
    ELSE IF Strip(Head(items)[key]) # "" THEN Strip(Head(items)[key])
    ELSE first_non_blank(Tail(items), key, fallback)

\* the loop over the lines of a bill, kind "purchase" or "sale"; acc is the
\* session, the counters, and the exception that ended the loop
RECURSIVE bill_lines(_, _, _, _, _)
bill_lines(acc, env, lines, ctx, now) ==
    LET Moved(mv) ==
            IF mv.exc # "" THEN [ acc EXCEPT !.s = mv.s, !.exc = mv.exc ]
            ELSE bill_lines([ acc EXCEPT !.s = mv.s,
                                         !.saved = IF mv.ret THEN @ + 1 ELSE @ ],
                            env, Tail(lines), ctx, now)
        Ensured(ep, qty, rate) ==
            IF ep.exc # "" THEN [ acc EXCEPT !.s = ep.s, !.exc = ep.exc ]
            ELSE IF NonPositive(qty)
            THEN bill_lines([ acc EXCEPT !.s = ep.s, !.created_only = @ + 1 ],
                            env, Tail(lines), ctx, now)
            ELSE IF IsNone(ep.ret) THEN [ acc EXCEPT !.s = ep.s, !.exc = "TypeError" ]
            ELSE Moved(add_move_in(ep.s, env,
                           [ kind |-> ctx.kind, product_id |-> ep.ret[1],
                             qty |-> AsQty(qty), price_per_unit |-> NumOrNone(rate),
                             customer_id |-> IF ctx.kind = "sale" THEN ctx.party_id
                                             ELSE None,
                             supplier_id |-> IF ctx.kind = "sale" THEN None
                                             ELSE ctx.party_id,
                             notes |-> ctx.note ],
                           now, DefaultWindow))
        Parsed(ln, name, size, qty, rate) ==
            IF name = "" \/ size = "" THEN bill_lines(acc, env, Tail(lines), ctx, now)
            ELSE IF IsNone(qty) \/ IsNone(rate) THEN [ acc EXCEPT !.exc = "ValueError" ]
            ELSE IF ctx.kind = "sale" /\ NonPositive(qty[1])
            THEN bill_lines(acc, env, Tail(lines), ctx, now)
            ELSE Ensured(ensure_product_in(acc.s, env,
                             [ name |-> name, size |-> size,
                               unit |-> Strip(IF ln.unit = "" THEN ctx.unit_default
                                              ELSE ln.unit),
                               material |-> Strip(IF ln.material = "" THEN ctx.mat_default
                                                  ELSE ln.material),
                               opening_stock |-> 0 ]),
                         qty[1], rate[1])
        EachLine(ln) ==
            Parsed(ln, Strip(ln.product_name), Strip(ln.size),
                   FloatOrZero(ln.qty), FloatOrZero(ln.rate))
    IN  IF lines = <<>> \/ acc.exc # "" THEN acc ELSE EachLine(Head(lines))

\* st.error(f"Error: {e}"): the text names the exception
ErrorText(exc) ==
    CASE exc = "ValueError"   -> "Error: could not convert string to float"
      [] exc = "RuntimeError" -> "Error: append_row failed"
      [] OTHER                -> "Error: int() argument must be a number, not NoneType"

\* what a bill hands to the loop over its lines
BillContext(kind, form, party_id) ==
    [ kind |-> kind, party_id |-> party_id,
      unit_default |-> first_non_blank(form.rows, "unit", "box"),
      mat_default  |-> first_non_blank(form.rows, "material", "Tiles"),
      note |-> IF form.bill_no = "" THEN None ELSE Some(BillNote(form.bill_no)) ]

Loop(s) == [ s |-> s, saved |-> 0, created_only |-> 0, exc |-> "" ]

\* Purchase tab, "Save Purchase Bill": the whole branch is in a try, and an
\* exception is shown with st.error
save_purchase_bill(s, env, form, now) ==
    LET Looped(loop) ==
            IF loop.exc # "" THEN Done(Say(loop.s, ErrorText(loop.exc)), None)
            ELSE IF loop.saved > 0 \/ loop.created_only > 0
            THEN Done(Say(loop.s, "Saved purchase bill"), None)
            ELSE Done(Say(loop.s, "Nothing to save. Fill at least Product, Size and Qty."),
                      None)
        Supplier(sup) ==
            IF sup.exc # "" THEN Done(Say(sup.s, ErrorText(sup.exc)), None)
            ELSE Looped(bill_lines(Loop(sup.s), env, form.rows,
                                   BillContext("purchase", form, sup.ret), now))
    IN  Supplier(IF form.party = "" THEN Done(s, None)
                 ELSE ensure_party_in(s, env, "suppliers", form.party))

\* Sale tab, "Save Sales Bill": above the button the previous balance of the
\* customer named is shown
save_sales_bill(s, env, form, now) ==
    LET Finished(saved, pay) ==
            IF saved > 0
            THEN Done(Say(pay.s, IF pay.ret THEN "Saved sale lines & recorded advance"
                                            ELSE "Saved sale lines"), None)
            ELSE Done(Say(pay.s,
                          "Nothing to save. Fill at least Product, Size and Qty > 0."),
                      None)
        Looped(loop, cust_id, bill_adv) ==
            IF loop.exc # "" THEN Done(Say(loop.s, ErrorText(loop.exc)), None)
            ELSE Finished(loop.saved,
                     IF Truthy(cust_id) /\ bill_adv > 0
                     THEN add_payment_in(loop.s, env,
                              AdvancePayment(cust_id, bill_adv,
                                  IF form.bill_no = "" THEN "Advance for bill"
                                  ELSE "Advance for Bill 7"),
                              now)
                     ELSE Done(loop.s, FALSE))
        Customer(cust, bill_adv) ==
            IF cust.exc # "" THEN Done(Say(cust.s, ErrorText(cust.exc)), None)
            ELSE Looped(bill_lines(Loop(cust.s), env, form.rows,
                                   BillContext("sale", form, cust.ret), now),
                        cust.ret, bill_adv)
        Previewed(prev, adv) ==
            Customer(ensure_party_in(
                         IF IsNone(adv)
                         THEN Say(prev.s, "Please enter a valid advance amount for this bill")
                         ELSE prev.s,
                         env, "customers", form.party),
                     IF IsNone(adv) THEN 0 ELSE AsAmount(adv[1]))
        Preview(cdf, rows) ==
            Previewed(IF rows = <<>> THEN Done(cdf.s, 0)
                      ELSE customer_balance_in(cdf.s, env, rows[1]["id"]),
                      parse_amount(form.adv_text))
        Reading(cdf) ==
            Preview(cdf, IF Strip(form.party) = "" THEN <<>>
                         ELSE PartyRowsNamed(cdf.df, Strip(form.party)))
    IN  Reading(Read(s, env, "customers"))

\* Payments tab, "Save"
save_payment(s, env, form, now) ==
    LET Saving(pay, cid) ==
            IF pay.ret
            THEN Done(Say(customer_balance_in(pay.s, env, cid).s, "Saved."), None)
            ELSE Done(Say(pay.s, "Looks like a duplicate; nothing saved."), None)
        Clicked(s1, cid, amount) ==
            IF amount = 0
            THEN Done(Say(s1, "Amount must be a valid number and > 0."), None)
            ELSE Saving(add_payment_in(s1, env,
                            [ customer_id |-> Some(cid), kind |-> form.kind,
                              amount |-> amount, supplier_id |-> None,
                              notes |-> Some(form.note) ],
                            now),
                        cid)
        Parsed(bal, cid, amt) ==
            Clicked(IF IsNone(amt)
                    THEN Say(bal.s,
                             "Please enter a valid number for amount (e.g., 1000 or 1000.50)")
                    ELSE bal.s,
                    cid, IF IsNone(amt) THEN 0 ELSE AsAmount(amt[1]))
        Chosen(custs, cid) ==
            Parsed(customer_balance_in(custs.s, env, cid), cid, parse_amount(form.amt_text))
        Listing(custs) == Chosen(custs, IdByName(custs.df, form.party))
    IN  Listing(Read(s, env, "customers"))

(* --------------------------- the application -------------------------- *)

\* the store answers every select and insert
AppEnvs == { Reliable }

\* datetime.now() at a click: the first instant, or past the dedupe window
\* after it; the clock does not run backwards
Later == Now + (DefaultWindow + 1) * TicksPerSec

AppTimes == {Now, Later}

ClockAllows(now) ==
    \A i \in 1..Len(store["stock_moves"]) :
        ToDatetime(store["stock_moves"][i]["ts"]) <= now

CustomerForms ==
    [ name : {"Suresh", "suresh", ""}, phone : {""}, address : {""} ]

AddCustomer ==
    \E form \in CustomerForms, env \in AppEnvs :
        LET r == add_party_click(Session(store, cache), env, "customers", form)
        IN  /\ Appended(r.s.store) <= MaxAppRows
            /\ store' = r.s.store
            /\ cache' = r.s.cache
            /\ last' = Outcome("Add Customer", form, 0, r)

SupplierForms ==
    [ name : {"ABC", ""}, phone : {""}, address : {""} ]

AddSupplier ==
    \E form \in SupplierForms, env \in AppEnvs :
        LET r == add_party_click(Session(store, cache), env, "suppliers", form)
        IN  /\ Appended(r.s.store) <= MaxAppRows
            /\ store' = r.s.store
            /\ cache' = r.s.cache
            /\ last' = Outcome("Add Supplier", form, 0, r)

\* the ids a selectbox over the products offers
IdsOf(df) == { df[i]["id"] : i \in 1..Len(df) }

PurchaseForms ==
    [ product_id : IdsOf(store["products"]), qty_text : {"2", "", "abc"},
      price_text : {"10.25"}, party : {"-- none --"} \cup NamesOf(store["suppliers"]),
      notes : {""} ]

SavePurchase ==
    \E form \in PurchaseForms, env \in AppEnvs, now \in AppTimes :
        LET r == save_purchase(Session(store, cache), env, form, now)
        IN  /\ ClockAllows(now)
            /\ Appended(r.s.store) <= MaxAppRows
            /\ store' = r.s.store
            /\ cache' = r.s.cache
            /\ last' = Outcome("Save Purchase", form, now, r)

SaleForms ==
    [ product_id : IdsOf(store["products"]), qty_text : {"2", "-5"},
      price_text : {"10.25"}, party : {"-- none --"} \cup NamesOf(store["customers"]),
      adv_text : {"0.00", "100"}, notes : {""} ]

SaveSale ==
    \E form \in SaleForms, env \in AppEnvs, now \in AppTimes :
        LET r == save_sale(Session(store, cache), env, form, now)
        IN  /\ ClockAllows(now)
            /\ Appended(r.s.store) <= MaxAppRows
            /\ store' = r.s.store
            /\ cache' = r.s.cache
            /\ last' = Outcome("Save Sale", form, now, r)

\* a line of a bill as row_form keeps it
Line(product_name, qty, rate) ==
    [ material |-> "", product_name |-> product_name, size |-> "600x600",
      unit |-> "box", qty |-> qty, rate |-> rate ]

BlankLine ==
    [ material |-> "", product_name |-> "", size |-> "", unit |-> "", qty |-> "",
      rate |-> "" ]

\* the items of the bills of the model
BillRows ==
    { << Line("Renite", "2", "10.25") >>,
      << Line("renite", "2.5", "") >>,
      << Line("Renite", "2", "10.25"), Line(" Renite", "2.5", "10.25") >>,
      << Line("Renite", "2", "10.25"), Line("Renite", "abc", "10.25") >>,
      << BlankLine, Line("Renite", "-5", "") >> }

PurchaseBillForms ==
    [ bill_no : {"7"}, party : {"", "ABC"}, rows : BillRows ]

SavePurchaseBill ==
    \E form \in PurchaseBillForms, env \in AppEnvs, now \in AppTimes :
        LET r == save_purchase_bill(Session(store, cache), env, form, now)
        IN  /\ ClockAllows(now)
            /\ Appended(r.s.store) <= MaxAppRows
            /\ store' = r.s.store
            /\ cache' = r.s.cache
            /\ last' = Outcome("Save Purchase Bill", form, now, r)

SalesBillForms ==
    [ bill_no : {"7"}, party : {"", "Suresh", " suresh"}, adv_text : {"0.00", "100"},
      rows : BillRows ]

SaveSalesBill ==
    \E form \in SalesBillForms, env \in AppEnvs, now \in AppTimes :
        LET r == save_sales_bill(Session(store, cache), env, form, now)
        IN  /\ ClockAllows(now)
            /\ Appended(r.s.store) <= MaxAppRows
            /\ store' = r.s.store
            /\ cache' = r.s.cache
            /\ last' = Outcome("Save Sales Bill", form, now, r)

PaymentForms ==
    [ party : NamesOf(store["customers"]), kind : {"payment", "opening_due"},
      amt_text : {"100", "1,000", "-5", "abc", "0.00"}, note : {""} ]

SavePayment ==
    \E form \in PaymentForms, env \in AppEnvs :
        LET r == save_payment(Session(store, cache), env, form, Now)
        IN  /\ store' = r.s.store
            /\ cache' = r.s.cache
            /\ last' = Outcome("Save Payment", form, Now, r)

\* a store in use: a customer and the payments of that customer
UsedStore ==
    [ EmptyStore EXCEPT !["customers"] = << SeedCustomer >>,
                        !["payments"] = SubSeq(SeedPayments, 1, 3) ]

InitApp ==
    /\ store \in {EmptyStore, UsedStore}
    /\ cache = [t \in Tables |-> None]
    /\ last = Outcome("init", <<>>, 0, Done(Session(store, cache), None))

NextApp ==
    \/ AddCustomer
    \/ AddSupplier
    \/ SavePurchase
    \/ SaveSale
    \/ SavePurchaseBill
    \/ SaveSalesBill
    \/ SavePayment
    \/ CacheExpire

SpecApp == InitApp /\ [][NextApp]_vars


(* ------------------------ app.py: Daily Report ------------------------ *)
(* The days are counted from the day of instant 0; a stored ts counts the *)
(* seconds from then.                                                     *)

SecondsPerDay == 86400

\* datetime(day.year, day.month, day.day, 0, 0, 0)
DayStart(day) == day * SecondsPerDay * TicksPerSec

\* datetime(day.year, day.month, day.day, 23, 59, 59)
DayEnd(day) == (day * SecondsPerDay + SecondsPerDay - 1) * TicksPerSec

\* df[df["ts_dt"].between(start_dt, end_dt, inclusive="both")]
Between(df, start_dt, end_dt) ==
    SelectSeq(df, LAMBDA r :
        ToDatetime(r["ts"]) >= start_dt /\ ToDatetime(r["ts"]) <= end_dt)

RECURSIVE InsertByTs(_, _)
\* the row put after the rows of the sorted frame that are not later than it
InsertByTs(r, sorted) ==
    IF sorted = <<>> THEN <<r>>
    ELSE IF Head(sorted)["ts"] <= r["ts"] THEN <<Head(sorted)>> \o InsertByTs(r, Tail(sorted))
    ELSE <<r>> \o sorted

RECURSIVE SortByTs(_)
\* df.sort_values("ts_dt")
SortByTs(df) ==
    IF df = <<>> THEN <<>>
    ELSE InsertByTs(df[Len(df)], SortByTs(SubSeq(df, 1, Len(df) - 1)))

\* a row with one more column
WithColumn(r, c, v) == [ k \in DOMAIN r \cup {c} |-> IF k = c THEN v ELSE r[k] ]

\* the cells of column c, in the order of the rows
ColumnOf(df, c) == [ i \in 1..Len(df) |-> df[i][c] ]

RECURSIVE LeftMerge(_, _, _, _, _)
\* left.merge(right[["id", col]], left_on=..., right_on="id", how="left"),
\* keys the cells of the left key column and `as` the name of the right
\* column in the result: a left row once for every right row with its key,
\* and once with a missing cell when there is none
LeftMerge(left, keys, right, col, as) ==
    IF left = <<>> THEN <<>>
    ELSE LET Joined(r, m) ==
                 IF m = <<>> THEN << WithColumn(r, as, None) >>
                 ELSE [ i \in 1..Len(m) |-> WithColumn(r, as, m[i][col]) ]
             Matching(r, k) ==
                 Joined(r, IF IsNone(k) THEN <<>>
                           ELSE SelectSeq(right, LAMBDA x : x["id"] = k[1]))
         IN  Matching(Head(left), Head(keys))
             \o LeftMerge(Tail(left), Tail(keys), right, col, as)

\* rep["value"] and rep["Party"]
ReportRow(r) ==
    WithColumn(
        WithColumn(r, "value", Abs(r["qty"]) * OrElse(r["price_per_unit"], 0)),
        "Party",
        IF r["kind"] = "sale" THEN r["customer_name"] ELSE r["supplier_name"])

\* the frame rep of the report: the moves of the day with the names of the
\* product, the customer and the supplier merged in, the value and the party
Rep(mv, prods, custs, sups) ==
    LET Valued(m) == [ i \in 1..Len(m) |-> ReportRow(m[i]) ]
        WithSupplier(m) ==
            Valued(LeftMerge(m, ColumnOf(m, "supplier_id"), sups, "name", "supplier_name"))
        WithCustomer(m) ==
            WithSupplier(LeftMerge(m, ColumnOf(m, "customer_id"), custs, "name",
                                   "customer_name"))
    IN  WithCustomer(LeftMerge(mv, [ i \in 1..Len(mv) |-> Some(mv[i]["product_id"]) ],
                               prods, "name", "product_name"))

RECURSIVE SumValue(_)
\* ["value"].sum()
SumValue(rows) == IF rows = <<>> THEN 0 ELSE Head(rows)["value"] + SumValue(Tail(rows))

\* the keys of a groupby that drops the rows whose key is missing
GroupKeys_dropna(keys) ==
    { keys[i] : i \in { j \in 1..Len(keys) : ~IsNone(keys[j][2]) } }

\* the keys of groupby(..., dropna=False) over the keys of the rows: a
\* missing key is a key
GroupKeys(keys) == { keys[i] : i \in 1..Len(keys) }

\* groupby(keys, dropna=False)["value"].sum().reset_index() and
\* fillna("N/A") on the text of the key: a row for every key, with the kind,
\* the key, the label shown and the total
GroupTotals(rows, KeyOf(_)) ==
    { [ kind |-> k[1], key |-> k[2], label |-> FillNa(k[2], "N/A"),
        total |-> SumValue(SelectSeq(rows, LAMBDA r : KeyOf(r) = k)) ] :
      k \in GroupKeys([ i \in 1..Len(rows) |-> KeyOf(rows[i]) ]) }

\* rep.groupby(["kind","notes"], dropna=False)
BillKey(r) == << r["kind"], r["notes"] >>

\* sales.groupby("Party", dropna=False)
PartyKey(r) == << "sale", r["Party"] >>

\* what the report shows of the moves: the frame, the bill-wise totals and
\* the totals by customer (None, when no sale is shown)
MovesShown(rep) ==
    [ moves |-> rep,
      by_bill |-> GroupTotals(rep, BillKey),
      by_customer |->
          IF RowsWhere(rep, "kind", "sale") = <<>> THEN None
          ELSE Some(GroupTotals(RowsWhere(rep, "kind", "sale"), PartyKey)) ]

NothingShown == [ moves |-> <<>>, by_bill |-> {}, by_customer |-> None ]

\* "Daily Report": the tab for the date picked, day. ret is what it shows;
\* payments is None when the frame of the payments is not shown.
\* rep["qty_display"] = rep.apply(..., axis=1): on a frame without rows
\* apply returns a copy of the frame, and setting a column to a frame of
\* several columns raises ValueError
daily_report(s, env, day) ==
    LET Shown(s1, shown, pays) ==
            [ s |-> s1, exc |-> "",
              ret |-> [ moves |-> shown.moves, by_bill |-> shown.by_bill,
                        by_customer |-> shown.by_customer, payments |-> pays ] ]
        Stock(prods, shown, pays) ==
            IF prods.df = <<>> THEN Shown(prods.s, shown, pays)
            ELSE Shown(Read(prods.s, env, "stock_moves").s, shown, pays)
        Snapshot(s1, shown, pays) == Stock(Read(s1, env, "products"), shown, pays)
        \* pp.merge(sdf, left_on="supplier_id", ...): KeyError, payments has
        \* no such column
        MergingSuppliers(sups, shown, pp) ==
            IF "supplier_id" \in Columns("payments")
            THEN Snapshot(sups.s, shown, Some(pp))
            ELSE [ Shown(sups.s, shown, None) EXCEPT !.exc = "KeyError" ]
        MergingCustomers(custs, shown, pp) ==
            MergingSuppliers(Read(custs.s, env, "suppliers"), shown, pp)
        Filtered(pays, shown, pp) ==
            IF pays.df = <<>> \/ pp = <<>> THEN Snapshot(pays.s, shown, None)
            ELSE MergingCustomers(Read(pays.s, env, "customers"), shown, pp)
        Paid(pays, shown) ==
            Filtered(pays, shown, Between(pays.df, DayStart(day), DayEnd(day)))
        PaymentsToday(s1, shown) == Paid(Read(s1, env, "payments"), shown)
        Merged(sups, rep) ==
            IF rep = <<>>
            THEN [ Shown(sups.s, NothingShown, None) EXCEPT !.exc = "ValueError" ]
            ELSE PaymentsToday(sups.s, MovesShown(rep))
        WithSuppliers(mv, prods, custs, sups) ==
            Merged(sups, Rep(mv, prods.df, custs.df, sups.df))
        WithCustomers(mv, prods, custs) ==
            WithSuppliers(mv, prods, custs, Read(custs.s, env, "suppliers"))
        WithProducts(mv, prods) ==
            WithCustomers(mv, prods, Read(prods.s, env, "customers"))
        MovesToday(moves) ==
            IF moves.df = <<>> THEN PaymentsToday(moves.s, NothingShown)
            ELSE WithProducts(
                     SortByTs(Between(CoerceMoves(moves.df), DayStart(day), DayEnd(day))),
                     Read(moves.s, env, "products"))
    IN  MovesToday(Read(s, env, "stock_moves"))

(* ----------------- the Daily Report over recorded moves --------------- *)

\* moves recorded in one run of the report's specification
MaxReportRows == 3

SeedSupplier ==
    [ id |-> 1, name |-> Some("ABC"), phone |-> None, address |-> None ]

\* a payment stored in the first second of the second day
NextDayPayment == [ SeedPayments[1] EXCEPT !["ts"] = SecondsPerDay ]

\* the stores the report starts on: a product, a customer and a supplier,
\* and no payment, payments of the first day, or one of the second day
ReportStores ==
    { [ EmptyStore EXCEPT !["products"] = << SeedProduct >>,
                          !["customers"] = << SeedCustomer >>,
                          !["suppliers"] = << SeedSupplier >>,
                          !["payments"] = p ] :
      p \in { <<>>, SubSeq(SeedPayments, 1, 2), << NextDayPayment >> } }

\* the dates picked: the first day and the second
ReportDays == {0, 1}

\* datetime.now() when a move is recorded: the last second of the first day,
\* at its start and three quarters through it, the first second of the second
\* day, and a minute later
ReportTimes ==
    { DayEnd(0), DayEnd(0) + TicksPerSec - 1, DayStart(1),
      DayStart(1) + 60 * TicksPerSec }

\* the moves the save handlers record: a sale to the customer on a bill, a
\* sale with no customer and no note, a sale without a price, a purchase
\* from the supplier on a bill and a purchase with no supplier and no note
ReportMoveArgs ==
    { BaseSale,
      [ BaseSale EXCEPT !.customer_id = None, !.notes = None ],
      [ BaseSale EXCEPT !.price_per_unit = None, !.notes = None ],
      BasePurchase,
      [ BasePurchase EXCEPT !.supplier_id = None, !.notes = None ] }

\* add_move(...) at the instant now
RecordMove ==
    \E a \in ReportMoveArgs, now \in ReportTimes :
        LET r == add_move_in(Session(store, cache), Reliable, a, now, DefaultWindow)
        IN  /\ ClockAllows(now)
            /\ Len(r.s.store["stock_moves"]) <= MaxReportRows
            /\ store' = r.s.store
            /\ cache' = r.s.cache
            /\ last' = Outcome("add_move", a, now, r)

\* the Daily Report tab is opened for a date
DailyReport ==
    \E day \in ReportDays :
        LET r == daily_report(Session(store, cache), Reliable, day)
        IN  /\ store' = r.s.store
            /\ cache' = r.s.cache
            /\ last' = Outcome("Daily Report", [ day |-> day ], last.when, r)

InitReport ==
    /\ store \in ReportStores
    /\ cache = [t \in Tables |-> None]
    /\ last = Outcome("init", <<>>, 0, Done(Session(store, cache), None))

NextReport ==
    \/ RecordMove
    \/ DailyReport
    \/ CacheExpire

SpecReport == InitReport /\ [][NextReport]_vars

(* --------------------- sheets_db.py: the Sheets store ----------------- *)
(* The spreadsheet is a function from the names of the tabs to None, for  *)
(* a tab that does not exist, or to the rows of the tab, each the         *)
(* sequence of its cells; the first row is the header row.                *)

REQUIRED_TABS ==
    [ Products   |-> <<"id", "name", "material", "size", "unit", "opening_stock">>,
      Customers  |-> <<"id", "name", "phone", "address">>,
      StockMoves |-> <<"id", "ts", "kind", "product_id", "qty", "price_per_unit",
                       "customer_id", "notes">>,
      Users      |-> <<"id", "username", "password_hash", "salt">> ]

\* REQUIRED_TABS.items(): the tabs in the order of the dict
TabOrder == <<"Products", "Customers", "StockMoves", "Users">>

\* _retry(fn, attempts: int = 4, ...)
DefaultAttempts == 4

RECURSIVE RetryLoop(_, _, _, _)
\* `for i in range(attempts)` of _retry from round i on; answers[i + 1] is
\* what fn does in round i: "ok" when it returns, else the exception it
\* raises; last_err says whether an APIError was caught. calls counts the
\* calls of fn and sleeps the calls of time.sleep
RetryLoop(answers, i, attempts, last_err) ==
    IF i >= attempts
    THEN [ calls |-> i, sleeps |-> i, exc |-> "RuntimeError",
           text |-> IF last_err THEN "Google Sheets API error."
                    ELSE "Unknown error when calling Google Sheets API." ]
    ELSE IF answers[i + 1] = "ok"
    THEN [ calls |-> i + 1, sleeps |-> i, exc |-> "", text |-> "" ]
    ELSE IF answers[i + 1] = "APIError"
    THEN RetryLoop(answers, i + 1, attempts, TRUE)
    ELSE [ calls |-> i + 1, sleeps |-> i, exc |-> answers[i + 1], text |-> "" ]

\* a _retry that gives up one round early
_retry_short(answers, attempts) ==
    RetryLoop(answers, 0, IF attempts > 0 THEN attempts - 1 ELSE 0, FALSE)

\* _retry(fn, attempts): the outcome, given what fn does in each round
_retry(answers, attempts) == RetryLoop(answers, 0, attempts, FALSE)

\* the Google API in the course of a handler: its calls are counted from 0,
\* and the env.len calls from call env.at on fail with APIError
Failing(env, n) == env.at <= n /\ n < env.at + env.len

NoFaults == [ at |-> 0, len |-> 0 ]

\* _retry(lambda: ...) with the default attempts, n the number of calls of
\* the API made before it and real what the call does when the API
\* answers; n counts on
ApiCall(env, n, real) ==
    LET Counted(r) == [ exc |-> r.exc, text |-> r.text, n |-> n + r.calls ]
    IN  Counted(_retry([ i \in 1..DefaultAttempts |->
                           IF Failing(env, n + i - 1) THEN "APIError" ELSE real ],
                       DefaultAttempts))

\* _open_sheet(): cfg says which of SHEET_ID and SHEET_URL the secrets hold
\* and what open_by_key and open_by_url do when the API answers. by_key and
\* by_url say whether the way was tried
_open_sheet(env, n, cfg) ==
    LET Outcome_(exc, text, k, by_key, by_url) ==
            [ exc |-> exc, text |-> text, n |-> k, by_key |-> by_key, by_url |-> by_url ]
        CouldNotOpen(k, by_key, by_url) ==
            Outcome_("RuntimeError", "Could not open Google Sheet.", k, by_key, by_url)
        UrlTried(r, by_key) ==
            IF r.exc = "" THEN Outcome_("", "", r.n, by_key, TRUE)
            ELSE IF r.exc \in {"SpreadsheetNotFound", "APIError"}
            THEN CouldNotOpen(r.n, by_key, TRUE)
            ELSE Outcome_(r.exc, r.text, r.n, by_key, TRUE)
        ByUrl(k, by_key) ==
            IF cfg.sheet_url THEN UrlTried(ApiCall(env, k, cfg.url_answer), by_key)
            ELSE CouldNotOpen(k, by_key, FALSE)
        KeyTried(r) ==
            IF r.exc = "" THEN Outcome_("", "", r.n, TRUE, FALSE)
            ELSE IF r.exc \in {"SpreadsheetNotFound", "APIError"} THEN ByUrl(r.n, TRUE)
            ELSE Outcome_(r.exc, r.text, r.n, TRUE, FALSE)
    IN  IF cfg.sheet_id THEN KeyTried(ApiCall(env, n, cfg.key_answer))
        ELSE ByUrl(n, FALSE)

\* ws.row_values(1)
row_values(values) == IF values = <<>> THEN <<>> ELSE values[1]

\* ws.update("A1", [headers]): the cells of the first row from A1 on
UpdateA1(values, headers) ==
    IF values = <<>> THEN << headers >>
    ELSE [ values EXCEPT ![1] = headers \o SubSeq(@, Len(headers) + 1, Len(@)) ]

\* a check of the header row that writes the headers over a row that differs
HeaderCheck_overwriting(current, headers) ==
    IF current = <<>> THEN "write"
    ELSE IF current # headers THEN "write"
    ELSE "keep"

\* `if not current` and `if current != headers` of _ensure_tab
HeaderCheck(current, headers) ==
    IF current = <<>> THEN "write"
    ELSE IF current # headers THEN "raise"
    ELSE "keep"

\* _ensure_tab(sh, tab_name, headers) on the spreadsheet sh
_ensure_tab(sh, env, n, tab_name, headers) ==
    LET Result(sheet, k, exc, text) ==
            [ sheet |-> sheet, n |-> k, exc |-> exc, text |-> text ]
        Written(sheet, upd) ==
            IF upd.exc # "" THEN Result(sheet, upd.n, upd.exc, upd.text)
            ELSE Result([ sheet EXCEPT ![tab_name] = Some(UpdateA1(@[1], headers)) ],
                        upd.n, "", "")
        Added(add) ==
            IF add.exc # "" THEN Result(sh, add.n, add.exc, add.text)
            ELSE Written([ sh EXCEPT ![tab_name] = Some(<<>>) ], ApiCall(env, add.n, "ok"))
        Checked(cur, check) ==
            IF cur.exc # "" THEN Result(sh, cur.n, cur.exc, cur.text)
            ELSE IF check = "write" THEN Written(sh, ApiCall(env, cur.n, "ok"))
            ELSE IF check = "raise"
            THEN Result(sh, cur.n, "RuntimeError", "header mismatch")
            ELSE Result(sh, cur.n, "", "")
        Found(ws) ==
            IF ws.exc = "WorksheetNotFound" THEN Added(ApiCall(env, ws.n, "ok"))
            ELSE IF ws.exc # "" THEN Result(sh, ws.n, ws.exc, ws.text)
            ELSE Checked(ApiCall(env, ws.n, "ok"),
                         HeaderCheck(row_values(sh[tab_name][1]), headers))
    IN  Found(ApiCall(env, n, IF IsNone(sh[tab_name]) THEN "WorksheetNotFound" ELSE "ok"))

RECURSIVE EnsureTabs(_, _, _)
\* `for tab, headers in REQUIRED_TABS.items(): _ensure_tab(sh, tab, headers)`
\* over the tabs left, acc the outcome so far
EnsureTabs(acc, env, tabs) ==
    IF tabs = <<>> \/ acc.exc # "" THEN acc
    ELSE EnsureTabs(_ensure_tab(acc.sheet, env, acc.n, Head(tabs),
                                REQUIRED_TABS[Head(tabs)]),
                    env, Tail(tabs))

\* ensure_all_tabs(): an exception of _open_sheet is shown and st.stop()
\* ends the run
ensure_all_tabs(sh, env, cfg) ==
    LET Opened(o) ==
            IF o.exc # ""
            THEN [ sheet |-> sh, n |-> o.n, exc |-> "StopException", text |-> o.text ]
            ELSE EnsureTabs([ sheet |-> sh, n |-> o.n, exc |-> "", text |-> "" ],
                            env, TabOrder)
    IN  Opened(_open_sheet(env, 0, cfg))

(* ------------------- the Sheets store under API errors ---------------- *)

\* the latest call of the API at which the errors may begin
MaxFaultAt == 6

\* the most attempts a caller of _retry asks for
MaxAttempts == 4

\* no error, one error, or as many in a row as _retry makes attempts
Faults == [ at : 0..MaxFaultAt, len : {0, 1, DefaultAttempts} ]

TabNames == DOMAIN REQUIRED_TABS

\* a row of data under the headers of a tab
DataRow == << "1", "x" >>

NoTabs == [ t \in TabNames |-> None ]

SheetInUse == [ t \in TabNames |-> Some(<< REQUIRED_TABS[t], DataRow >>) ]

\* the spreadsheets the app starts on: a blank one, one in use, one in use
\* whose Customers tab has other headers, one whose Products tab has lost
\* its header row and whose Users tab is empty, and one with the first tab
\* only
Sheets ==
    { NoTabs,
      SheetInUse,
      [ SheetInUse EXCEPT !["Customers"] = Some(<< <<"id", "customer">>, DataRow >>) ],
      [ SheetInUse EXCEPT !["Products"] = Some(<< <<>>, DataRow >>),
                          !["Users"] = Some(<<>>) ],
      [ NoTabs EXCEPT !["Products"] = Some(<< REQUIRED_TABS["Products"] >>) ] }

\* what fn does in a round of _retry: it returns, or raises an error of
\* the API, or another exception
RetryAnswers == {"ok", "APIError", "WorksheetNotFound"}

\* the secrets and the spreadsheet as open_by_key and open_by_url find it
OpenConfigs ==
    [ sheet_id : BOOLEAN, sheet_url : BOOLEAN,
      key_answer : {"ok", "SpreadsheetNotFound"},
      url_answer : {"ok", "SpreadsheetNotFound"} ]

\* the secrets with which ensure_all_tabs is run: SHEET_ID alone, of a
\* spreadsheet that is there or not
EnsureConfigs ==
    { c \in OpenConfigs : c.sheet_id /\ ~c.sheet_url /\ c.url_answer = "ok" }

\* _retry(fn, attempts) is called
RetryCall ==
    \E attempts \in 0..MaxAttempts :
        \E answers \in [ 1..attempts -> RetryAnswers ] :
            LET r == _retry(answers, attempts)
            IN  /\ last' = [ op |-> "_retry",
                             args |-> [ answers |-> answers, attempts |-> attempts ],
                             exc |-> r.exc, text |-> r.text, calls |-> r.calls,
                             out |-> [ sleeps |-> r.sleeps ] ]
                /\ UNCHANGED <<store, cache>>

\* _open_sheet() is called
OpenSheet ==
    \E cfg \in OpenConfigs, env \in Faults :
        LET r == _open_sheet(env, 0, cfg)
        IN  /\ last' = [ op |-> "_open_sheet", args |-> [ cfg |-> cfg, env |-> env ],
                         exc |-> r.exc, text |-> r.text, calls |-> r.n,
                         out |-> [ by_key |-> r.by_key, by_url |-> r.by_url ] ]
            /\ UNCHANGED <<store, cache>>

\* ensure_all_tabs() is called, as app.py does when it starts
EnsureAllTabs ==
    \E cfg \in EnsureConfigs, env \in Faults :
        LET r == ensure_all_tabs(store, env, cfg)
        IN  /\ store' = r.sheet
            /\ last' = [ op |-> "ensure_all_tabs", args |-> [ cfg |-> cfg, env |-> env ],
                         exc |-> r.exc, text |-> r.text, calls |-> r.n,
                         out |-> <<>> ]
            /\ UNCHANGED cache

InitSheets ==
    /\ store \in Sheets
    /\ cache = _clear_caches
    /\ last = [ op |-> "init", args |-> <<>>, exc |-> "", text |-> "", calls |-> 0,
                out |-> <<>> ]

NextSheets ==
    \/ RetryCall
    \/ OpenSheet
    \/ EnsureAllTabs

SpecSheets == InitSheets /\ [][NextSheets]_vars

(* -------------- supabase_db.py: append_row and the id column ---------- *)
(* db says how the table is declared and how the store answers during a   *)
(* call: db.identity, whether id is an identity column, else it rejects   *)
(* null; db.unique, whether the store refuses a second row with an id;    *)
(* db.first, db.select and db.second, whether the first insert, the       *)
(* select of _next_id and the second insert reach the store.              *)

Databases ==
    [ identity : BOOLEAN, unique : BOOLEAN, client : BOOLEAN, first : BOOLEAN,
      select : BOOLEAN, second : BOOLEAN ]

\* _next_id(table_name, sb): an exception of the select is passed over and
\* 1 is returned
next_id_or_one(rows, db) == IF db.select THEN _next_id(rows) ELSE 1

\* the record append_row builds of the values, under the id given
RecordOf(t, row, id) ==
    [ c \in Columns(t) |->
        IF c = "id" THEN id ELSE _noneify(c, row[ColumnIndex(t, c)]) ]

\* sb.table(t).insert(payload_with_id2).execute(): the store refuses an id
\* that a row has when the column is unique
InsertWithId(st, t, row, id, db) ==
    IF ~db.second THEN [ raised |-> "RuntimeError", store |-> st, inserts |-> 2 ]
    ELSE IF db.unique /\ \E i \in 1..Len(st[t]) : st[t][i]["id"] = id
    THEN [ raised |-> "RuntimeError", store |-> st, inserts |-> 2 ]
    ELSE [ raised |-> "", inserts |-> 2,
           store |-> [ st EXCEPT ![t] = Append(@, RecordOf(t, row, id)) ] ]

\* append_row(table_name, row_values) with a blank id on the table as db
\* declares it: the insert without the id, and after the store's complaint
\* about the null id the insert with the id of _next_id. inserts counts the
\* calls of insert
append_row_on(st, t, row, db) ==
    IF ~db.client
    THEN [ raised |-> "RuntimeError", store |-> st, inserts |-> 0 ]
    ELSE IF Len(row) # Len(TABLE_COLUMNS[t])
    THEN [ raised |-> "ValueError", store |-> st, inserts |-> 0 ]
    ELSE IF ~db.first
    THEN [ raised |-> "RuntimeError", store |-> st, inserts |-> 1 ]
    ELSE IF db.identity
    THEN [ raised |-> "", inserts |-> 1,
           store |-> [ st EXCEPT ![t] =
                         Append(@, RecordOf(t, row, _next_id(st[t]))) ] ]
    ELSE InsertWithId(st, t, row, next_id_or_one(st[t], db), db)

\* rows inserted in one run of append_row's specification
MaxInsertRows == 3

\* the rows handed to append_row: a customer, a supplier, and the seven
\* values of a payment
InsertCalls ==
    { [ t |-> "customers", row_values |-> PartyRow("Suresh", "", "") ],
      [ t |-> "customers", row_values |-> PartyRow("ABC", "", "") ],
      [ t |-> "suppliers", row_values |-> PartyRow("ABC", "", "") ],
      [ t |-> "payments", row_values |-> PaymentRow(BasePayment, Now) ] }

\* append_row is called; the declaration of the tables stays as it is
AppendRow ==
    \E call \in InsertCalls, db \in Databases :
        LET r == append_row_on(store, call.t, call.row_values, db)
        IN  /\ db.identity = last.db.identity
            /\ db.unique = last.db.unique
            /\ Len(r.store["customers"]) + Len(r.store["suppliers"]) <= MaxInsertRows
            /\ store' = r.store
            /\ cache' = _clear_caches
            /\ last' = [ op |-> "append_row", args |-> call, db |-> db,
                         exc |-> r.raised, inserts |-> r.inserts ]

InitInsert ==
    /\ store \in {EmptyStore, UsedStore}
    /\ cache = _clear_caches
    /\ \E db \in Databases :
          /\ db.client /\ db.first /\ db.select /\ db.second
          /\ last = [ op |-> "init", args |-> <<>>, db |-> db, exc |-> "", inserts |-> 0 ]

NextInsert == AppendRow

SpecInsert == InitInsert /\ [][NextInsert]_vars

(* ----------- app.py: a bill saved on a store that may fail ------------ *)

\* the product of the bills, as ensure_product stores it
BillProduct ==
    [ id |-> 1, name |-> Some("Renite"), material |-> Some("Tiles"),
      size |-> Some("600x600"), unit |-> Some("box"), opening_stock |-> 0 ]

\* a store that holds the product, the customer and the supplier of the bills
BillStore ==
    [ EmptyStore EXCEPT !["products"] = << BillProduct >>,
                        !["customers"] = << SeedCustomer >>,
                        !["suppliers"] = << SeedSupplier >> ]

\* rows of stock_moves in one run of the bills' specification
MaxBillRows == 3

\* the store during a handler: it answers, or its selects fail, or its
\* inserts fail after the first
BillEnvs ==
    { Reliable,
      [ read |-> FALSE, write |-> TRUE, ok |-> 0 ],
      [ read |-> TRUE, write |-> FALSE, ok |-> 1 ] }

\* the rows of products, customers and suppliers of the store st
Registered(st) == Len(st["products"]) + Len(st["customers"]) + Len(st["suppliers"])

\* the instants of the clicks: the first, and half a second before the
\* window since the first click ends
BillTimes == { Now, Now + DefaultWindow * TicksPerSec - 2 }

\* the bills: two lines of one product that differ in the quantity
PurchaseBills ==
    [ bill_no : {"7"}, party : {"ABC"},
      rows : { << Line("Renite", "2", "10.25"), Line("Renite", "2.5", "10.25") >> } ]

SalesBills ==
    [ bill_no : {"8"}, party : {"Suresh"}, adv_text : {"0.00"},
      rows : { << Line("Renite", "2", "10.25"), Line("Renite", "2.5", "10.25") >> } ]

SubmitPurchaseBill ==
    \E form \in PurchaseBills, env \in BillEnvs, now \in BillTimes :
        LET r == save_purchase_bill(Session(store, cache), env, form, now)
        IN  /\ ClockAllows(now)
            /\ Len(r.s.store["stock_moves"]) <= MaxBillRows
            /\ Registered(r.s.store) <= Registered(BillStore) + 2
            /\ store' = r.s.store
            /\ cache' = r.s.cache
            /\ last' = Outcome("Save Purchase Bill", form, now, r)

SubmitSalesBill ==
    \E form \in SalesBills, env \in BillEnvs, now \in BillTimes :
        LET r == save_sales_bill(Session(store, cache), env, form, now)
        IN  /\ ClockAllows(now)
            /\ Len(r.s.store["stock_moves"]) <= MaxBillRows
            /\ Registered(r.s.store) <= Registered(BillStore) + 2
            /\ store' = r.s.store
            /\ cache' = r.s.cache
            /\ last' = Outcome("Save Sales Bill", form, now, r)

InitBill ==
    /\ store = BillStore
    /\ cache = [t \in Tables |-> None]
    /\ last = Outcome("init", <<>>, 0, Done(Session(store, cache), None))

NextBill ==
    \/ SubmitPurchaseBill
    \/ SubmitSalesBill
    \/ CacheExpire

SpecBill == InitBill /\ [][NextBill]_vars

(* ---------------------- app.py: the login wall ------------------------ *)
(* One run of the script: the default user is ensured, then the login     *)
(* wall, and behind it Logout and the tabs. st.session_state["user"] is   *)
(* carried from run to run; click is the button pressed in the run.       *)

ALLOWED_USERS == {"venkat reddy"}

DEFAULT_USERNAME == "venkat reddy"

DEFAULT_PASSWORD == "1234"

\* _hash_password(password, salt): PBKDF2-HMAC-SHA256, which on the
\* passwords and salts of the model gives a digest of its own to each pair
_hash_password(password, salt) == << "pbkdf2", password, salt >>

\* users_df(): the users frame, read through the cache
users_df(s, env) ==
    LET Coerced(rd) == [ exc |-> "", df |-> rd.df, s |-> rd.s ]
    IN  Coerced(Read(s, env, "users"))

\* the rows of df whose username, lowered, is username
UsersNamed(df, username) ==
    SelectSeq(df, LAMBDA r : Lower(r["username"][1]) = username)

\* user_exists(username)
user_exists(s, env, username) ==
    LET Found(u) ==
            IF u.exc # "" THEN Throw(u.s, u.exc)
            ELSE Done(u.s, UsersNamed(u.df, Lower(Strip(username))) # <<>>)
    IN  Found(users_df(s, env))

\* the values create_user and reset_or_create_user hand to append_row
UserRow(username, password, salt) ==
    << None, Some(Lower(Strip(username))), _hash_password(password, salt), salt >>

\* create_user(username, password), salt the value of secrets.token_hex(16)
create_user(s, env, username, password, salt) ==
    LET Appending(ins) ==
            IF ins.raised # "" THEN Throw(ins.s, ins.raised)
            ELSE Done(Cleared(ins.s), None)
    IN  Appending(Insert(s, env, "users", UserRow(username, password, salt)))

\* verify_login(username, password): the user, or None
verify_login(s, env, username, password) ==
    LET Checked(u, row) ==
            IF row = <<>> THEN Done(u.s, None)
            ELSE IF _hash_password(password, row[1]["salt"]) = row[1]["password_hash"]
            THEN Done(u.s, Some(row[1]["username"][1]))
            ELSE Done(u.s, None)
        Looked(u) ==
            IF u.exc # "" THEN Throw(u.s, u.exc)
            ELSE IF u.df = <<>> THEN Done(u.s, None)
            ELSE Checked(u, UsersNamed(u.df, Lower(Strip(username))))
    IN  IF Lower(Strip(username)) \notin ALLOWED_USERS THEN Done(s, None)
        ELSE Looked(users_df(s, env))

\* supabase_db.reset_or_create_user(username, password): the rows of the
\* user get a new salt and hash; without such a row, or when the update
\* raises, the user is appended
reset_or_create_user(s, env, username, password, salt) ==
    LET hit == \E i \in 1..Len(s.store["users"]) :
                   s.store["users"][i]["username"] = Some(Lower(Strip(username)))
        Appending(ins) ==
            IF ins.raised # "" THEN Throw(ins.s, ins.raised) ELSE Done(ins.s, None)
    IN  IF env.write /\ hit
        THEN Done([ s EXCEPT !.store["users"] =
                      [ i \in 1..Len(@) |->
                          IF @[i]["username"] = Some(Lower(Strip(username)))
                          THEN [ @[i] EXCEPT !["salt"] = salt,
                                             !["password_hash"] =
                                                 _hash_password(password, salt) ]
                          ELSE @[i] ] ],
                  None)
        ELSE Appending(Insert(s, env, "users", UserRow(username, password, salt)))

\* a wall that lets the run go on to the tabs
stops_at_wall_never(user) == FALSE

\* `if "user" not in st.session_state: ... st.stop()`
stops_at_wall(user) == IsNone(user)

\* the end of a run: the session, the user in st.session_state, and the
\* exception that ended the run
RunEnd(s, user, exc) == [ s |-> s, user |-> user, exc |-> exc ]

\* the default user is ensured: `if DEFAULT_USERNAME in ALLOWED_USERS and not
\* user_exists(DEFAULT_USERNAME)`, create_user in a try that passes over
\* every exception
ensure_default_user(s, env, salt) ==
    LET Created(cu) == Done(cu.s, None)
        Exists(ue) ==
            IF ue.exc # "" THEN ue
            ELSE IF ue.ret THEN Done(ue.s, None)
            ELSE Created(create_user(ue.s, env, DEFAULT_USERNAME, DEFAULT_PASSWORD, salt))
    IN  IF DEFAULT_USERNAME \notin ALLOWED_USERS THEN Done(s, None)
        ELSE Exists(user_exists(s, env, DEFAULT_USERNAME))

\* the script from the login wall on; rerun says whether st.rerun() was
\* called
from_wall(s, env, user, click, salt) ==
    LET Login(v) ==
            IF v.exc # "" THEN [ end |-> RunEnd(v.s, user, v.exc), rerun |-> FALSE ]
            ELSE IF v.ret # None
            THEN [ end |-> RunEnd(v.s, Some([ username |-> v.ret[1] ]), ""),
                   rerun |-> TRUE ]
            ELSE [ end |-> RunEnd(Say(v.s, "Invalid credentials."), user, ""),
                   rerun |-> FALSE ]
        Reset(r) ==
            [ end |-> RunEnd(IF r.exc # "" THEN Say(r.s, "Reset failed")
                             ELSE Say(Cleared(r.s), "Default user reset."),
                             user, ""),
              rerun |-> FALSE ]
        Tab(h) == [ end |-> RunEnd(h.s, user, h.exc), rerun |-> FALSE ]
    IN  IF stops_at_wall(user)
        THEN CASE click.button = "Login" ->
                      Login(verify_login(s, env, click.username, click.password))
               [] click.button = "Reset default user" ->
                      Reset(reset_or_create_user(s, env, DEFAULT_USERNAME,
                                                 DEFAULT_PASSWORD, salt))
               [] OTHER -> [ end |-> RunEnd(s, user, ""), rerun |-> FALSE ]
        ELSE CASE click.button = "Logout" ->
                      [ end |-> RunEnd(s, None, ""), rerun |-> TRUE ]
               [] click.button = "Add Customer" ->
                      Tab(add_party_click(s, env, "customers", click.form))
               [] OTHER -> [ end |-> RunEnd(s, user, ""), rerun |-> FALSE ]

\* one run of the script with the button click pressed, and the run that
\* st.rerun() starts
script_run(s, env, user, click, salt) ==
    LET NoClick == [ button |-> "" ]
        Again(first, ed) ==
            IF ed.exc # "" THEN RunEnd(ed.s, first.user, ed.exc)
            ELSE from_wall(ed.s, env, first.user, NoClick, salt).end
        Walled(w) ==
            IF w.rerun THEN Again(w.end, ensure_default_user(w.end.s, env, salt))
            ELSE w.end
        Started(ed) ==
            IF ed.exc # "" THEN RunEnd(ed.s, user, ed.exc)
            ELSE Walled(from_wall(ed.s, env, user, click, salt))
    IN  Started(ensure_default_user(s, env, salt))

\* rows of users, and of customers, in one run of the login specification
MaxUsers == 2

\* the values of secrets.token_hex(16)
Salts == {"a1", "b2"}

\* the buttons pressed: Login with a name and a password, the reset of the
\* default user, Logout, Add Customer with a filled form, and none
Clicks ==
    [ button : {"Login"}, username : {"venkat reddy", " Venkat Reddy", "admin"},
      password : {DEFAULT_PASSWORD, "0000"} ]
    \cup { [ button |-> "Reset default user" ], [ button |-> "Logout" ],
           [ button |-> "" ],
           [ button |-> "Add Customer",
             form |-> [ name |-> "Suresh", phone |-> "", address |-> "" ] ] }

\* the default user as create_user stores it
DefaultUser ==
    [ id |-> 1, username |-> Some(DEFAULT_USERNAME),
      password_hash |-> _hash_password(DEFAULT_PASSWORD, "a1"), salt |-> "a1" ]

\* the script runs once; last holds the button, the exception that ended
\* the run, and st.session_state["user"] after it
ScriptRun ==
    \E click \in Clicks, env \in Envs, salt \in Salts :
        LET r == script_run(Session(store, cache), env, last.user, click, salt)
        IN  /\ Len(r.s.store["users"]) <= MaxUsers
            /\ Len(r.s.store["customers"]) <= MaxUsers
            /\ store' = r.s.store
            /\ cache' = r.s.cache
            /\ last' = [ op |-> click.button, args |-> click, exc |-> r.exc,
                         user |-> r.user, msgs |-> r.s.msgs,
                         appends |-> r.s.appends ]

InitLogin ==
    /\ store \in { EmptyStore, [ EmptyStore EXCEPT !["users"] = << DefaultUser >> ] }
    /\ cache = [t \in Tables |-> None]
    /\ last = [ op |-> "", args |-> [ button |-> "" ], exc |-> "", user |-> None,
                msgs |-> {}, appends |-> 0 ]

NextLogin ==
    \/ ScriptRun
    \/ CacheExpire

SpecLogin == InitLogin /\ [][NextLogin]_vars
(* ------------------------------ claims -------------------------------- *)

\* a step that is a call of operation op: every call writes `last`, and a
\* call that repeats the one before with the same outcome changes nothing
IsCall(op) == last'.op = op /\ <<store, last>>' # <<store, last>>

Moves == store["stock_moves"]

\* the sum of the stored qty of the first i rows of the ledger for product p
StoredQty[i \in 0..Len(Moves), p \in ProductIds] ==
    IF i = 0 THEN 0
    ELSE StoredQty[i - 1, p] + (IF Moves[i]["product_id"] = p THEN Moves[i]["qty"] ELSE 0)

\* C1: for every product P of the products table, product_stock(P) is
\* P.opening_stock plus the sum of the stored qty of the ledger rows of P,
\* whatever its sign and whatever the rows of other products; and a call of
\* product_stock returns that value.
C1_ProductStock ==
    /\ \A i \in 1..Len(store["products"]) :
          LET P == store["products"][i]
          IN  P["id"] \in ProductIds =>
                product_stock(P["id"])
                    = P["opening_stock"] + StoredQty[Len(Moves), P["id"]]
    /\ last.op = "product_stock" =>
          \A i \in 1..Len(store["products"]) :
              LET P == store["products"][i]
              IN  P["id"] = last.args.product_id =>
                    last.ret = P["opening_stock"] + StoredQty[Len(Moves), P["id"]]

\* product_stock was called for a product whose stock is negative, while the
\* ledger also holds a row of another product
C1_Witness ==
    /\ last.op = "product_stock"
    /\ last.ret < 0
    /\ \E i \in 1..Len(store["products"]) :
          store["products"][i]["id"] = last.args.product_id
    /\ \E i \in 1..Len(Moves) : Moves[i]["product_id"] # last.args.product_id
    /\ \E i \in 1..Len(Moves) : Moves[i]["product_id"] = last.args.product_id

\* C2: a call of add_move that returned True with a positive qty left, as the
\* newest row of the ledger, a row of its kind and product whose qty is -qty
\* for a sale and +qty for a purchase.
C2_SignNormalization ==
    (last.op = "add_move" /\ last.ret /\ last.args.qty > 0) =>
        /\ Len(Moves) >= 1
        /\ Moves[Len(Moves)]["kind"] = last.args.kind
        /\ Moves[Len(Moves)]["product_id"] = last.args.product_id
        /\ last.args.kind = "sale" => Moves[Len(Moves)]["qty"] = -last.args.qty
        /\ last.args.kind = "purchase" => Moves[Len(Moves)]["qty"] = last.args.qty

\* a sale and a purchase, each with a positive qty, were both stored
C2_Witness ==
    /\ last.op = "add_move" /\ last.ret /\ last.args.qty > 0
    /\ \E i \in 1..Len(Moves) : Moves[i]["kind"] = "sale" /\ Moves[i]["qty"] < 0
    /\ \E i \in 1..Len(Moves) : Moves[i]["kind"] = "purchase" /\ Moves[i]["qty"] > 0

\* the ledger after the step is the ledger before it and one more row
OneRowAppended(t) ==
    /\ Len(store'[t]) = Len(store[t]) + 1
    /\ SubSeq(store'[t], 1, Len(store[t])) = store[t]
    /\ \A u \in Tables \ {t} : store'[u] = store[u]

\* C3, as claimed: when add_move has returned True and is called again with
\* the same arguments, the default window and a timestamp no more than the
\* window after the first call's, the second call returns False and appends
\* no row; and a call that returns True appends exactly one row.
C3_Original ==
    [][ /\ ( /\ IsCall("add_move")
             /\ last.op = "add_move" /\ last.ret
             /\ last'.args = last.args
             /\ last.window = DefaultWindow
             /\ last'.window = DefaultWindow
             /\ last'.when >= last.when
             /\ last'.when - last.when <= DefaultWindow * TicksPerSec )
           => (~last'.ret /\ store' = store)
        /\ (IsCall("add_move") /\ last'.ret) => OneRowAppended("stock_moves")
      ]_vars

\* the stored row i equals the request a on kind, normalized qty, price (null
\* as 0), customer and supplier (null as no party) and notes (null as "")
SameLine(i, a) ==
    /\ Moves[i]["product_id"] = a.product_id
    /\ Moves[i]["kind"] = a.kind
    /\ Moves[i]["qty"] = (IF a.kind = "sale" /\ a.qty > 0 THEN -a.qty ELSE a.qty)
    /\ FillNa(Moves[i]["price_per_unit"], 0) = FillNa(a.price_per_unit, 0)
    /\ Moves[i]["customer_id"] = a.customer_id
    /\ Moves[i]["supplier_id"] = a.supplier_id
    /\ OrEmpty(Moves[i]["notes"]) = OrEmpty(a.notes)

\* C4, as claimed, for the calls with a positive window: add_move at t with
\* window N is skipped exactly when a stored row of the same line has a
\* timestamp ts with t-N <= ts <= t, and appends one row in every other case.
C4_Original ==
    [][ (IsCall("add_move") /\ last'.window > 0) =>
          LET a == last'.args
              t == last'.when
              N == last'.window * TicksPerSec
          IN  IF \E i \in 1..Len(Moves) :
                    /\ SameLine(i, a)
                    /\ t - N <= ToDatetime(Moves[i]["ts"])
                    /\ ToDatetime(Moves[i]["ts"]) <= t
              THEN ~last'.ret /\ store' = store
              ELSE last'.ret /\ OneRowAppended("stock_moves")
      ]_vars

Payments == store["payments"]

\* C5, as claimed: add_payment with a customer id, a kind of PaymentKinds and
\* an amount > 0 returns True, and the payments table then ends with a row of
\* the same timestamp (to the second), customer id, kind, amount and notes.
C5_Original ==
    ( /\ last.op = "add_payment"
      /\ Truthy(last.args.customer_id)
      /\ last.args.kind \in PaymentKinds
      /\ last.args.amount > 0 ) =>
        /\ last.ret
        /\ Len(Payments) >= 1
        /\ LET row == Payments[Len(Payments)]
           IN  /\ row["ts"] = IsoFormat(last.when)
               /\ row["customer_id"] = last.args.customer_id
               /\ row["kind"] = last.args.kind
               /\ row["amount"] = last.args.amount
               /\ OrEmpty(row["notes"]) = OrEmpty(last.args.notes)

\* C6, as claimed: an add_payment whose customer, kind, amount and notes
\* equal those of a payment stored within the window before it is skipped by
\* the guard, as add_move is: it returns False before any append_row and shows
\* no error.
C6_Original ==
    ( /\ last.op = "add_payment"
      /\ Truthy(last.args.customer_id)
      /\ last.args.amount > 0
      /\ \E i \in 1..Len(Payments) :
            /\ Payments[i]["customer_id"] = last.args.customer_id
            /\ Payments[i]["kind"] = last.args.kind
            /\ Payments[i]["amount"] = last.args.amount
            /\ OrEmpty(Payments[i]["notes"]) = OrEmpty(last.args.notes)
            /\ last.when - last.window * TicksPerSec <= ToDatetime(Payments[i]["ts"])
            /\ ToDatetime(Payments[i]["ts"]) <= last.when ) =>
        (~last.ret /\ last.appends = 0 /\ last.msg = "")

\* C7: a call of add_payment with amount <= 0, or with neither a customer id
\* nor a supplier id, returns False without a call of append_row and leaves
\* the store and the read cache as they were.
C7_PaymentRejected ==
    [][ ( /\ last' # last
          /\ last'.op = "add_payment"
          /\ \/ last'.args.amount <= 0
             \/ (last'.args.customer_id = None /\ last'.args.supplier_id = None) )
        => ( /\ ~last'.ret
             /\ last'.appends = 0
             /\ store' = store
             /\ cache' = cache )
      ]_vars

\* add_payment was rejected while the payments table held rows and a read
\* of it was cached
C7_Witness ==
    /\ last.op = "add_payment"
    /\ last.args.amount <= 0
    /\ ~last.ret
    /\ Payments # <<>>
    /\ cache["payments"] = Some(Payments)

\* the sale amount of the first i ledger rows for customer c: |qty| x price,
\* a null price counted as 0
SalesOf[i \in 0..Len(Moves), c \in PartyIds] ==
    IF i = 0 THEN 0
    ELSE SalesOf[i - 1, c]
         + (IF Moves[i]["kind"] = "sale" /\ Moves[i]["customer_id"] = Some(c)
            THEN Abs(Moves[i]["qty"]) * FillNa(Moves[i]["price_per_unit"], 0)
            ELSE 0)

\* the amount of the first i payment rows of kind k for customer c
PaidOf[i \in 0..Len(Payments), c \in PartyIds, k \in PaymentKinds] ==
    IF i = 0 THEN 0
    ELSE PaidOf[i - 1, c, k]
         + (IF Payments[i]["kind"] = k /\ Payments[i]["customer_id"] = Some(c)
            THEN Payments[i]["amount"]
            ELSE 0)

\* sales + opening_due - payments - advances of customer c, from the store
ExactBalance(c) ==
    SalesOf[Len(Moves), c]
    + PaidOf[Len(Payments), c, "opening_due"]
    - PaidOf[Len(Payments), c, "payment"]
    - PaidOf[Len(Payments), c, "advance"]

NearestHundredth(v, x) == v % 10 = 0 /\ Abs(v - x) <= 5

PurchasesOf[i \in 0..Len(Moves), s \in PartyIds] ==
    IF i = 0 THEN 0
    ELSE PurchasesOf[i - 1, s]
         + (IF Moves[i]["kind"] = "purchase" /\ Moves[i]["supplier_id"] = Some(s)
            THEN Abs(Moves[i]["qty"]) * FillNa(Moves[i]["price_per_unit"], 0)
            ELSE 0)

\* the amount of the first i payment rows of kind payment recorded for
\* supplier s
PaidToSupplier[i \in 0..Len(Payments), s \in PartyIds] ==
    IF i = 0 THEN 0
    ELSE PaidToSupplier[i - 1, s]
         + (IF /\ "supplier_id" \in DOMAIN Payments[i]
               /\ Payments[i]["kind"] = "payment"
               /\ Payments[i]["supplier_id"] = Some(s)
            THEN Payments[i]["amount"]
            ELSE 0)

\* C9, as claimed: in every state of the store, supplier_balance(S) returns
\* the purchases of S minus the payments recorded for S (to the hundredth).
C9_Original ==
    last.op = "supplier_balance" =>
        /\ last.exc = ""
        /\ NearestHundredth(last.ret,
               PurchasesOf[Len(Moves), last.args.supplier_id]
               - PaidToSupplier[Len(Payments), last.args.supplier_id])

\* C10, as claimed: a call of ensure_product that repeats the call before it
\* returns the same product id and appends no row; and no call appends more
\* than one row.
C10_Original ==
    [][ /\ ( /\ IsCall("ensure_product")
             /\ last.op = "ensure_product"
             /\ last'.args = last.args )
           => ( /\ last'.ret = last.ret
                /\ last'.ret # None
                /\ store' = store )
        /\ IsCall("ensure_product") =>
              (store' = store \/ OneRowAppended("products"))
      ]_vars

\* the identifying fields of a product with every letter in lower case
CaseFoldKey(name, size, unit) ==
    << Lower(Strip(name)), Lower(Strip(size)), Lower(Strip(unit)) >>

\* C11, as claimed, for products: a call of ensure_product whose (name, size,
\* unit) equals an existing row's up to letter case returns that row's id and
\* appends no row.
C11_Original ==
    [][ IsCall("ensure_product") =>
          \A i \in 1..Len(store["products"]) :
             LET r == store["products"][i]
             IN  CaseFoldKey(OrEmpty(r["name"]), OrEmpty(r["size"]), OrEmpty(r["unit"]))
                   = CaseFoldKey(last'.args.name, last'.args.size, last'.args.unit)
                 => ( /\ store' = store
                      /\ \E j \in 1..Len(store["products"]) :
                            /\ last'.ret = Some(store["products"][j]["id"])
                            /\ CaseFoldKey(OrEmpty(store["products"][j]["name"]),
                                           OrEmpty(store["products"][j]["size"]),
                                           OrEmpty(store["products"][j]["unit"]))
                                 = CaseFoldKey(last'.args.name, last'.args.size,
                                               last'.args.unit) )
      ]_vars

BillOps == {"Save Purchase Bill", "Save Sales Bill"}

\* the table a bill resolves its party in
PartyTableOf(op) == IF op = "Save Sales Bill" THEN "customers" ELSE "suppliers"

\* no two product rows have the same key (name and size in lower case, unit)
ProductsUnique(products) ==
    \A i, j \in 1..Len(products) :
        products_lookup_key(OrEmpty(products[i]["name"]), OrEmpty(products[i]["size"]),
                            OrEmpty(products[i]["unit"]))
          = products_lookup_key(OrEmpty(products[j]["name"]), OrEmpty(products[j]["size"]),
                                OrEmpty(products[j]["unit"]))
        => i = j

\* the rows of table t appended by the step
NewRows(t) == SubSeq(store'[t], Len(store[t]) + 1, Len(store'[t]))

NamesUnique(rows) ==
    \A i, j \in 1..Len(rows) :
        Lower(OrEmpty(rows[i]["name"])) = Lower(OrEmpty(rows[j]["name"])) => i = j

\* C13, as claimed: in every reachable state the names of the customers are
\* unique case-insensitively, and so are the names of the suppliers.
C13_Original ==
    NamesUnique(store["customers"]) /\ NamesUnique(store["suppliers"])

LedgerTables == {"stock_moves", "payments"}

\* C14: every step leaves each row of stock_moves and of payments in its
\* place and unchanged; rows are only added after them.
C14_AppendOnly ==
    [][ \A t \in LedgerTables :
          /\ Len(store'[t]) >= Len(store[t])
          /\ \A i \in 1..Len(store[t]) : store'[t][i] = store[t][i]
      ]_vars

\* a sale was recorded after an earlier move, which kept its place
C14_Witness ==
    /\ Len(store["stock_moves"]) = 2
    /\ store["stock_moves"][1]["kind"] = "purchase"
    /\ store["stock_moves"][2]["kind"] = "sale"
    /\ last.op = "Save Sale"
    /\ last.appends = 1

C16_Original ==
    ( /\ last.op \in {"add_move", "add_payment"}
      /\ last.calls > last.appends )
    => last.exc # ""

\* C17, as claimed: a fetch that failed on a table that holds rows is raised
\* to the caller of the helper; the helper does not go on with an empty table.
C17_Original ==
    last.hidden # {} => last.exc # ""

DuplicateTexts ==
    { "Skipped duplicate purchase (same line recently saved).",
      "Skipped duplicate sale (same line recently saved).",
      "Looks like a duplicate; nothing saved." }

SaveOps ==
    {"Save Purchase", "Save Sale", "Save Purchase Bill", "Save Sales Bill", "Save Payment"}

\* C18, as claimed: when the UI says that a save was skipped as a duplicate,
\* the save was neither rejected for its input nor failed in the store: the
\* amount of a payment was positive and no call of append_row raised.
C18_Original ==
    ( /\ last.op \in SaveOps
      /\ last.msgs \cap DuplicateTexts # {} )
    => /\ last.calls = last.appends
       /\ last.op = "Save Payment" =>
             /\ ~IsNone(parse_amount(last.args.amt_text))
             /\ parse_amount(last.args.amt_text)[1] > 0

\* the texts of quantity and rate of a form: of the line form, or of every
\* line of the bill that names a product and a size
NumberTextsOf(op, form) ==
    IF op \in BillOps
    THEN UNION { {form.rows[i].qty, form.rows[i].rate} :
                   i \in { k \in 1..Len(form.rows) :
                             Strip(form.rows[k].product_name) # ""
                             /\ Strip(form.rows[k].size) # "" } }
    ELSE {form.qty_text, form.price_text}

ErrorTexts == { ErrorText(e) : e \in {"ValueError", "RuntimeError", "TypeError"} }

\* C19, as claimed: a save whose form holds a quantity or rate text that is
\* not a number ends without an exception, raised or shown as an error.
C19_Original ==
    ( /\ last.op \in SaveOps \ {"Save Payment"}
      /\ \E text \in NumberTextsOf(last.op, last.args) :
            text # "" /\ IsNone(Float(text)) )
    => /\ last.exc = ""
       /\ last.msgs \cap ErrorTexts = {}

\* C20, as claimed: a save that appended a row was not cut short: no
\* exception ended it and none of its calls of append_row failed.
C20_Original ==
    ( /\ last.op \in SaveOps
      /\ last.appends > 0 )
    => /\ last.exc = ""
       /\ last.msgs \cap ErrorTexts = {}
       /\ last.calls = last.appends

\* the rows of table t stored with a timestamp of the day: from 00:00:00 to
\* 23:59:59 of it, in seconds
StoredOnDay(t, day) ==
    SelectSeq(store[t], LAMBDA r :
        r["ts"] >= day * SecondsPerDay /\ r["ts"] < (day + 1) * SecondsPerDay)

\* the ids of the rows of a frame
IdSet(df) == { df[i]["id"] : i \in 1..Len(df) }

\* C21, as claimed: the daily report of a date shows exactly the moves and
\* the payments stored with a timestamp from 00:00:00 to 23:59:59 of that
\* date, the moves in ascending order of their timestamps.
C21_Original ==
    last.op = "Daily Report" =>
        /\ last.exc = ""
        /\ Len(last.ret.moves) = Len(StoredOnDay("stock_moves", last.args.day))
        /\ IdSet(last.ret.moves) = IdSet(StoredOnDay("stock_moves", last.args.day))
        /\ \A i, j \in 1..Len(last.ret.moves) :
              i < j => last.ret.moves[i]["ts"] <= last.ret.moves[j]["ts"]
        /\ FillNa(last.ret.payments, <<>>) = StoredOnDay("payments", last.args.day)

RECURSIVE SumTotals(_)
\* the sum of the totals of the rows of a rollup
SumTotals(groups) ==
    IF groups = {} THEN 0
    ELSE LET g == CHOOSE x \in groups : TRUE
         IN  g.total + SumTotals(groups \ {g})

\* the sales among the moves stored on the day
SalesOnDay(day) == RowsWhere(StoredOnDay("stock_moves", day), "kind", "sale")

\* C22: in a daily report that shows moves, the bill-wise totals add up to
\* the value of all the moves of the day and the totals by customer to the
\* value of all its sales; the moves without a note are under the bill
\* "N/A" of their kind and the sales without a customer under the customer
\* "N/A".
C22_Rollups ==
    ( last.op = "Daily Report" /\ last.ret.moves # <<>> ) =>
        /\ SumTotals(last.ret.by_bill)
             = SumAmount(StoredOnDay("stock_moves", last.args.day))
        /\ \A i \in 1..Len(StoredOnDay("stock_moves", last.args.day)) :
              IsNone(StoredOnDay("stock_moves", last.args.day)[i]["notes"]) =>
                 \E g \in last.ret.by_bill :
                    /\ g.kind = StoredOnDay("stock_moves", last.args.day)[i]["kind"]
                    /\ g.label = "N/A"
        /\ SalesOnDay(last.args.day) # <<>> =>
              /\ ~IsNone(last.ret.by_customer)
              /\ SumTotals(last.ret.by_customer[1]) = SumAmount(SalesOnDay(last.args.day))
              /\ \A i \in 1..Len(SalesOnDay(last.args.day)) :
                    IsNone(SalesOnDay(last.args.day)[i]["customer_id"]) =>
                       \E g \in last.ret.by_customer[1] : g.label = "N/A"

\* a report of three moves was shown: sales under a bill and without a note,
\* to a customer and to none
C22_Witness ==
    /\ last.op = "Daily Report"
    /\ Len(last.ret.moves) = 3
    /\ \E g \in last.ret.by_bill : g.label = "N/A" /\ g.total > 0
    /\ \E g \in last.ret.by_bill : g.label = "Bill 7" /\ g.total > 0
    /\ ~IsNone(last.ret.by_customer)
    /\ \E g \in last.ret.by_customer[1] : g.label = "N/A" /\ g.total > 0
    /\ \E g \in last.ret.by_customer[1] : g.label = "Suresh" /\ g.total > 0

MoveSaveOps == {"Save Purchase", "Save Sale", "Save Purchase Bill", "Save Sales Bill"}

\* the quantities typed into a form: of the line form, or of the lines of a
\* bill that name a product and a size
QuantitiesOf(op, form) ==
    IF op \in BillOps
    THEN { FloatOrZero(form.rows[i].qty) :
             i \in { k \in 1..Len(form.rows) :
                       Strip(form.rows[k].product_name) # ""
                       /\ Strip(form.rows[k].size) # "" } }
    ELSE { FloatOrZero(form.qty_text) }

\* the form asks for a quantity and none of its quantities is positive
NonPositiveRequest(op, form) ==
    /\ op \in MoveSaveOps
    /\ QuantitiesOf(op, form) # {}
    /\ \A q \in QuantitiesOf(op, form) : ~IsNone(q) /\ q[1] <= 0

\* every move has a quantity that is positive for a purchase and negative
\* for a sale
SignedMoves(moves) ==
    \A i \in 1..Len(moves) :
        /\ moves[i]["kind"] = "purchase" => moves[i]["qty"] > 0
        /\ moves[i]["kind"] = "sale" => moves[i]["qty"] < 0

FirstNonApiError(answers) ==
    IF \A k \in 1..Len(answers) : answers[k] = "APIError" THEN 0
    ELSE CHOOSE k \in 1..Len(answers) :
            /\ answers[k] # "APIError"
            /\ \A j \in 1..(k - 1) : answers[j] = "APIError"

\* C24: _retry(fn, attempts) calls fn at most attempts times; it returns in
\* the first round in which fn succeeds, passes on at once an exception
\* that is not an APIError, and after attempts APIErrors in a row raises
\* RuntimeError.
C24_BoundedRetry ==
    last.op = "_retry" =>
        /\ last.calls <= last.args.attempts
        /\ IF FirstNonApiError(last.args.answers) = 0
           THEN /\ last.calls = last.args.attempts
                /\ last.exc = "RuntimeError"
           ELSE /\ last.calls = FirstNonApiError(last.args.answers)
                /\ last.exc =
                     IF last.args.answers[FirstNonApiError(last.args.answers)] = "ok"
                     THEN ""
                     ELSE last.args.answers[FirstNonApiError(last.args.answers)]

\* fn succeeded in the last of four rounds, after three APIErrors
C24_Witness ==
    /\ last.op = "_retry"
    /\ last.args.attempts = DefaultAttempts
    /\ last.args.answers = << "APIError", "APIError", "APIError", "ok" >>
    /\ last.calls = DefaultAttempts
    /\ last.exc = ""

\* a way of opening was configured and tried, and failed
KeyFailed(cfg, env) ==
    cfg.sheet_id /\ (cfg.key_answer # "ok" \/ (env.at = 0 /\ env.len = DefaultAttempts))

\* C25, as claimed: when opening by SHEET_ID fails, with an APIError or with
\* SpreadsheetNotFound, and a SHEET_URL is configured, _open_sheet tries the
\* URL; and it raises 'Could not open Google Sheet' only after every
\* configured way was tried.
C25_Original ==
    last.op = "_open_sheet" =>
        /\ ( /\ KeyFailed(last.args.cfg, last.args.env)
             /\ last.args.cfg.sheet_url ) => last.out.by_url
        /\ last.text = "Could not open Google Sheet." =>
              /\ last.args.cfg.sheet_id => last.out.by_key
              /\ last.args.cfg.sheet_url => last.out.by_url

\* the rows of a tab, none for a tab that does not exist
RowsOf(sh, t) == IF IsNone(sh[t]) THEN <<>> ELSE sh[t][1]

IdsIn(st, t) == { st[t][i]["id"] : i \in 1..Len(st[t]) }

\* C27, as claimed: a call of append_row with a blank id makes at most two
\* inserts; with a wrong number of values it raises ValueError and inserts
\* nothing; when it succeeds it has added one row to the table, under an id
\* that no row of the table had, max(id) + 1 when the id column rejects
\* null and 1 for an empty table; and when it fails it raises RuntimeError
\* and has added nothing.
C27_Original ==
    [][ last'.op = "append_row" =>
          /\ last'.inserts <= 2
          /\ Len(last'.args.row_values) # Len(TABLE_COLUMNS[last'.args.t]) =>
                /\ last'.exc = "ValueError"
                /\ last'.inserts = 0
          /\ last'.exc # "" =>
                /\ last'.exc \in {"ValueError", "RuntimeError"}
                /\ store' = store
          /\ last'.exc = "" =>
                /\ \A t \in Tables \ {last'.args.t} : store'[t] = store[t]
                /\ Len(store'[last'.args.t]) = Len(store[last'.args.t]) + 1
                /\ SubSeq(store'[last'.args.t], 1, Len(store[last'.args.t]))
                     = store[last'.args.t]
                /\ store'[last'.args.t][Len(store'[last'.args.t])]["id"]
                     \notin IdsIn(store, last'.args.t)
                /\ ~last'.db.identity =>
                      store'[last'.args.t][Len(store'[last'.args.t])]["id"]
                        = MaxId(store[last'.args.t]) + 1
      ]_vars

\* the kind of the moves of a bill handler
KindOf(op) == IF op = "Save Sales Bill" THEN "sale" ELSE "purchase"

\* the rows of the ledger st that hold the line ln of the bill form saved by op
RowsOfLine(st, op, form, ln) ==
    { i \in 1..Len(st["stock_moves"]) :
        /\ st["stock_moves"][i]["kind"] = KindOf(op)
        /\ st["stock_moves"][i]["notes"] = Some(BillNote(form.bill_no))
        /\ st["stock_moves"][i]["qty"]
             = ins_qty(KindOf(op), AsQty(FloatOrZero(ln.qty)[1])) }

\* st.error(f"Error: {e}") was among the messages shown
ErrorShown(msgs) ==
    \E e \in {"ValueError", "RuntimeError", "TypeError"} : ErrorText(e) \in msgs

\* the last handler was a bill that ended in an error after it had appended
\* a line
FailedPartly ==
    /\ last.op \in {"Save Purchase Bill", "Save Sales Bill"}
    /\ ErrorShown(last.msgs)
    /\ \E k \in 1..Len(last.args.rows) :
          RowsOfLine(store, last.op, last.args, last.args.rows[k]) # {}

\* the same bill is submitted again within the dedupe window
Resubmitted ==
    /\ last'.op = last.op
    /\ last'.args = last.args
    /\ last'.when >= last.when
    /\ last'.when - last.when < DefaultWindow * TicksPerSec

\* C28, as claimed: when a bill that failed after some of its lines were
\* appended is submitted again within the dedupe window, no line of the bill
\* is in the ledger twice, and when the second submission ends without an
\* error every line of the bill is in the ledger exactly once.
C28_Original ==
    [][ FailedPartly /\ Resubmitted =>
          \A k \in 1..Len(last.args.rows) :
              /\ Cardinality(RowsOfLine(store', last.op, last.args, last.args.rows[k])) <= 1
              /\ ~ErrorShown(last'.msgs) =>
                    Cardinality(RowsOfLine(store', last.op, last.args,
                                           last.args.rows[k])) = 1
      ]_vars

\* what product_stock and customer_balance return on the store st read
\* through the cache ca
ValuesRead(st, ca) ==
    [ stock   |-> product_stock_in(Session(st, ca), Reliable, 1).ret,
      balance |-> customer_balance_in(Session(st, ca), Reliable, 1).ret ]

\* C29: an add_move that returns True has appended exactly one row to
\* stock_moves and has left every other table as it was; an add_move that
\* returns False for a duplicate has left every table as it was, and
\* product_stock and customer_balance return after it what they returned
\* before it.
C29_Frame ==
    [][ (FAddMove /\ last'.exc = "") =>
          /\ last'.ret = TRUE =>
                /\ \A t \in Tables \ {"stock_moves"} : store'[t] = store[t]
                /\ Len(store'["stock_moves"]) = Len(store["stock_moves"]) + 1
                /\ SubSeq(store'["stock_moves"], 1, Len(store["stock_moves"]))
                     = store["stock_moves"]
          /\ last'.ret = FALSE =>
                /\ store' = store
                /\ ValuesRead(store', cache') = ValuesRead(store, cache)
      ]_vars

\* add_move was skipped for a duplicate on a ledger that holds both a sale
\* and a purchase of the product
C29_Witness ==
    /\ last.op = "add_move"
    /\ last.exc = ""
    /\ last.ret = FALSE
    /\ Len(store["stock_moves"]) = 2
    /\ store["products"] # <<>>
    /\ ValuesRead(store, cache).stock # 0

\* the rows of users that admit the name and the password typed
Admitting(st, username, password) ==
    { i \in 1..Len(st["users"]) :
        /\ st["users"][i]["username"] = Some(Lower(Strip(username)))
        /\ _hash_password(password, st["users"][i]["salt"])
             = st["users"][i]["password_hash"] }

\* C30: the session comes to hold a user only in a run in which Login was
\* pressed with a name that, stripped and lowered, is in ALLOWED_USERS and a
\* password whose hash under the salt of a stored row of that name is the
\* hash of the row; a run of Logout that ends without an exception leaves
\* no user in the session; and a run in which a row is appended to products,
\* customers, suppliers, stock_moves or payments started with a user in the
\* session.
C30_LoginGate ==
    [][ /\ (IsNone(last.user) /\ ~IsNone(last'.user)) =>
              /\ last'.op = "Login"
              /\ Lower(Strip(last'.args.username)) \in ALLOWED_USERS
              /\ Admitting(store', last'.args.username, last'.args.password) # {}
        /\ (last' # last /\ last'.op = "Logout" /\ last'.exc = "") =>
              IsNone(last'.user)
        /\ (\E t \in Tables \ {"users"} : store'[t] # store[t]) =>
              ~IsNone(last.user)
      ]_vars

\* Login was pressed with the allowed name in another case and after a
\* blank, and the password of the stored row; the session holds the user
C30_Witness ==
    /\ last.op = "Login"
    /\ last.args.username = " Venkat Reddy"
    /\ last.user = Some([ username |-> DEFAULT_USERNAME ])
    /\ Admitting(store, last.args.username, last.args.password) # {}

====
